---- MODULE Spec2Model ----
(***************************************************************************)
(* Model of the Penvid financial engine (backend/app/calculations.py) and  *)
(* of the strategy endpoints that call it (backend/app/api/                *)
(* financial_strategy.py).                                                 *)
(*                                                                         *)
(* Numbers.  The engine computes with Python floats.  Here every monetary  *)
(* amount is an integer count of 1/1000 of a currency unit (so 10005 is    *)
(* 10.005), annual loan rates are in 1/100 of a percent (1200 is 12.0, the *)
(* value the code calls annual_rate = 12.0), investment returns and risk   *)
(* factors are in percent (7 is the code's 0.07, 20 is the code's 0.2).    *)
(* A product with a rate is rounded down to the unit.  The file's 0.01     *)
(* snapping threshold is 10 units, so balances below it are representable. *)
(* Dates (datetime.now() based) and display names are not represented.     *)
(***************************************************************************)
EXTENDS Integers, Sequences, FiniteSets, TLC

VARIABLES
    args,            \* arguments of the amortization functions under call
    pc,              \* position of the amortization driver
    loan_term,       \* value returned by calculate_loan_term
    interest_paid,   \* value returned by calculate_total_interest_paid
    balance,         \* generate_amortization_schedule: local balance
    month,           \* generate_amortization_schedule: local month
    total_interest,  \* generate_amortization_schedule: local total_interest
    schedule,        \* generate_amortization_schedule: local schedule
    strategy_cache,  \* the TTLCache of the strategy comparison: key -> cached object
    heap,            \* the result dictionaries built so far, by object identity
    calls,           \* the invocations of the memoized comparison, with what each returned
    requests,        \* number of requests served
    sim,             \* the strategy simulation under way: its call and its locals
    fn,              \* the call of a pure calculation under way and what it returned
    limiter          \* the rate limiting middleware: its table, the clock and the responses

amort_vars == <<args, pc, loan_term, interest_paid, balance, month, total_interest, schedule>>
strategy_vars == <<strategy_cache, heap, calls, requests>>
vars == <<amort_vars, strategy_vars, sim, fn, limiter>>

----------------------------------------------------------------------------
(* Arithmetic helpers *)

Min(a, b) == IF a <= b THEN a ELSE b
Max(a, b) == IF a >= b THEN a ELSE b
Abs(a) == IF a < 0 THEN 0 - a ELSE a

\* Python's None
None == [none |-> TRUE]

\* float('inf') and finite numbers, as returned in result dictionaries
INF == [inf |-> TRUE]
Num(x) == [inf |-> FALSE, val |-> x]

\* annual_rate / 100 / 12 with annual_rate in 1/100 percent: x * monthly_rate
\* is (x * annual_rate) \div RateDen
RateDen == 100 * 12 * 100

\* x * monthly_rate
TimesMonthlyRate(x, annual_rate) == (x * annual_rate) \div RateDen

\* 0.01, the balance below which a loan counts as paid
Threshold == 10

\* months in a year
MonthsPerYear == 12

----------------------------------------------------------------------------
(* calculate_loan_term *)

\* math.ceil(-log(1 - P*r/PMT) / log(1+r)): the closed form denotes the real n
\* at which the balance P(1+r)^n - PMT((1+r)^n - 1)/r is 0; its ceiling is the
\* first whole k at which that balance is <= 0.  b is the balance after k
\* whole payments.
RECURSIVE CeilPayments(_, _, _, _)
CeilPayments(b, annual_rate, monthly_payment, k) ==
    IF b <= 0 THEN k
    ELSE CeilPayments(b + TimesMonthlyRate(b, annual_rate) - monthly_payment,
                      annual_rate, monthly_payment, k + 1)

\* round(x, 2) of the quotient num/den (den > 0), in 1/100: round half to even
Round2(num, den) ==
    LET q == (100 * num) \div den
        r == (100 * num) % den
    IN  IF 2 * r > den \/ (2 * r = den /\ q % 2 = 1) THEN q + 1 ELSE q

\* calculate_loan_term with the non-amortizing branch returning the zero result
\* of the first guard instead of the infinite sentinel
calculate_loan_term_zero(principal, annual_rate, monthly_payment) ==
    IF principal <= 0 \/ monthly_payment <= 0
    THEN [months |-> Num(0), years |-> Num(0)]
    ELSE IF annual_rate = 0
    THEN [months |-> Num(principal \div monthly_payment),
          years |-> Num(Round2(principal, monthly_payment * MonthsPerYear))]
    ELSE IF monthly_payment * RateDen <= principal * annual_rate
    THEN [months |-> Num(0), years |-> Num(0)]
    ELSE [months |-> Num(CeilPayments(principal, annual_rate, monthly_payment, 0)),
          years |-> [inf |-> FALSE]]

calculate_loan_term(principal, annual_rate, monthly_payment) ==
    IF principal <= 0 \/ monthly_payment <= 0
    THEN [months |-> Num(0), years |-> Num(0)]
    ELSE IF annual_rate = 0
    THEN [months |-> Num(principal \div monthly_payment),
          years |-> Num(Round2(principal, monthly_payment * MonthsPerYear))]
    ELSE IF monthly_payment * RateDen <= principal * annual_rate
    THEN [months |-> INF, years |-> INF]
    ELSE LET months == CeilPayments(principal, annual_rate, monthly_payment, 0)
         IN  \* years = round(n / 12, 2) needs the fractional n; only its
             \* finiteness is represented
             [months |-> Num(months), years |-> [inf |-> FALSE]]

----------------------------------------------------------------------------
(* calculate_total_interest_paid *)

calculate_total_interest_paid(principal, annual_rate, monthly_payment) ==
    IF principal <= 0 \/ monthly_payment <= 0 THEN Num(0)
    ELSE IF monthly_payment * RateDen <= principal * annual_rate THEN INF
    ELSE LET months == calculate_loan_term(principal, annual_rate, monthly_payment).months.val
             total_payments == monthly_payment * months
             total_interest_ == total_payments - principal
         IN  Num(Max(0, total_interest_))

----------------------------------------------------------------------------
(* generate_amortization_schedule *)

\* max_years: int = 30
DefaultMaxYears == 30

\* a ceiling one month too high
max_payments_more(a) == a.max_years * MonthsPerYear + 1

\* max_payments = max_years * 12
max_payments(a) == a.max_years * MonthsPerYear

\* ScheduleEntry charging a year's interest each month (annual_rate / 100
\* without the / 12)
ScheduleEntry_annual(a, bal, m) ==
    LET interest_due == (bal * a.annual_rate) \div (100 * 100)
        shortfall == a.monthly_payment <= interest_due
        bal1 == IF shortfall THEN bal + (interest_due - a.monthly_payment) ELSE bal
        interest_payment == IF shortfall THEN a.monthly_payment ELSE interest_due
        principal0 == IF shortfall THEN 0
                      ELSE Min(a.monthly_payment - interest_due, bal)
        extra_payment_applied == IF a.extra_payment > 0
                                 THEN Min(a.extra_payment, bal1 - principal0)
                                 ELSE 0
        principal_payment == principal0 + extra_payment_applied
        remaining_balance == bal1 - principal_payment
    IN  [month |-> m + 1,
         payment |-> a.monthly_payment + extra_payment_applied,
         principal_payment |-> principal_payment,
         interest_payment |-> interest_payment,
         extra_payment |-> extra_payment_applied,
         remaining_balance |-> remaining_balance,
         interest_due |-> interest_due]

\* One pass of the loop body: the schedule entry appended for the month, from
\* the balance at the top of the loop.  interest_due is the interest added to
\* total_interest before the shortfall branch overwrites interest_payment.
ScheduleEntry(a, bal, m) ==
    LET interest_due == TimesMonthlyRate(bal, a.annual_rate)
        shortfall == a.monthly_payment <= interest_due
        bal1 == IF shortfall THEN bal + (interest_due - a.monthly_payment) ELSE bal
        interest_payment == IF shortfall THEN a.monthly_payment ELSE interest_due
        principal0 == IF shortfall THEN 0
                      ELSE Min(a.monthly_payment - interest_due, bal)
        extra_payment_applied == IF a.extra_payment > 0
                                 THEN Min(a.extra_payment, bal1 - principal0)
                                 ELSE 0
        principal_payment == principal0 + extra_payment_applied
        remaining_balance == bal1 - principal_payment
    IN  [month |-> m + 1,
         payment |-> a.monthly_payment + extra_payment_applied,
         principal_payment |-> principal_payment,
         interest_payment |-> interest_payment,
         extra_payment |-> extra_payment_applied,
         remaining_balance |-> remaining_balance,
         interest_due |-> interest_due]

\* the dictionary appended to schedule (interest_due is a local, not a field)
EntryFields(e) ==
    [month |-> e.month, payment |-> e.payment,
     principal_payment |-> e.principal_payment,
     interest_payment |-> e.interest_payment,
     extra_payment |-> e.extra_payment,
     remaining_balance |-> e.remaining_balance]

\* balance after the iteration: remaining_balance, snapped to 0 below 0.01
SnapBalance(b) == IF b < Threshold THEN 0 ELSE b

\* generate_amortization_schedule as one call: the loop locals after at most n
\* further iterations (the schedule list itself is not kept), by halves (the
\* one-element set only makes the first half's locals a value before the
\* second half starts)
AmortStart(a) == [balance |-> a.principal, month |-> 0, total_interest |-> 0]

AmortStep(a, st) ==
    IF st.balance > 0 /\ st.month < max_payments(a)
    THEN LET e == ScheduleEntry(a, st.balance, st.month)
         IN  [balance |-> SnapBalance(e.remaining_balance),
              month |-> st.month + 1,
              total_interest |-> st.total_interest + e.interest_due]
    ELSE st

RECURSIVE AmortRun(_, _, _)
AmortRun(a, st, n) ==
    IF n = 0 THEN st
    ELSE IF n = 1 THEN AmortStep(a, st)
    ELSE CHOOSE r \in {AmortRun(a, mid, n - n \div 2) : mid \in {AmortRun(a, st, n \div 2)}} : TRUE

\* total_interest_paid and months_to_payoff of the returned dictionary
generate_amortization_schedule(a) ==
    IF a.principal <= 0 \/ a.monthly_payment <= 0
    THEN [total_interest_paid |-> 0, months_to_payoff |-> 0]
    ELSE LET st == AmortRun(a, AmortStart(a), max_payments(a))
         IN  [total_interest_paid |-> st.total_interest, months_to_payoff |-> st.month]

\* (1 + monthly_rate) ** n as a fixed-point number: x after n months of growth
RECURSIVE Compound(_, _, _)
Compound(x, annual_rate, n) ==
    IF n = 0 THEN x ELSE Compound(x + TimesMonthlyRate(x, annual_rate), annual_rate, n - 1)

\* unit of the fixed-point growth factor of npf.pmt
PmtScale == 1000000

\* the principal divided by the years instead of the number of payments
calculate_monthly_payment_yearly(principal, annual_rate, years) ==
    IF principal <= 0 \/ years <= 0 THEN 0
    ELSE IF annual_rate = 0 THEN principal \div years
    ELSE LET growth == Compound(PmtScale, annual_rate, years * MonthsPerYear)
         IN  (TimesMonthlyRate(principal, annual_rate) * growth) \div (growth - PmtScale)

\* -npf.pmt(r, n, P) is P * r * (1 + r)^n / ((1 + r)^n - 1), here to 1/1000
calculate_monthly_payment(principal, annual_rate, years) ==
    IF principal <= 0 \/ years <= 0 THEN 0
    ELSE IF annual_rate = 0 THEN principal \div (years * MonthsPerYear)
    ELSE LET growth == Compound(PmtScale, annual_rate, years * MonthsPerYear)
         IN  (TimesMonthlyRate(principal, annual_rate) * growth) \div (growth - PmtScale)

\* round(months / 12, 2), in 1/100 of a year (months * 100 / 12 is never
\* half way between two integers)
TermYears(months) == (months * 100 + 6) \div MonthsPerYear

\* the dictionary calculate_extra_payment_impact returns for input it rejects
ZeroImpact ==
    [original_term |-> [months |-> 0, years |-> 0],
     new_term |-> [months |-> 0, years |-> 0],
     months_saved |-> 0, interest_saved |-> 0]

\* the two schedules compared whatever the arguments are
calculate_extra_payment_impact_unguarded(principal, annual_rate, monthly_payment, extra_payment) ==
    LET a == [principal |-> principal, annual_rate |-> annual_rate,
              monthly_payment |-> monthly_payment, extra_payment |-> 0,
              max_years |-> DefaultMaxYears]
        regular_schedule == generate_amortization_schedule(a)
        accelerated_schedule ==
            generate_amortization_schedule([a EXCEPT !.extra_payment = extra_payment])
    IN  [original_term |-> [months |-> regular_schedule.months_to_payoff,
                            years |-> TermYears(regular_schedule.months_to_payoff)],
         new_term |-> [months |-> accelerated_schedule.months_to_payoff,
                       years |-> TermYears(accelerated_schedule.months_to_payoff)],
         months_saved |-> regular_schedule.months_to_payoff
                             - accelerated_schedule.months_to_payoff,
         interest_saved |-> regular_schedule.total_interest_paid
                               - accelerated_schedule.total_interest_paid]

calculate_extra_payment_impact(principal, annual_rate, monthly_payment, extra_payment) ==
    IF principal <= 0 \/ monthly_payment <= 0 \/ extra_payment <= 0
    THEN ZeroImpact
    ELSE LET a == [principal |-> principal, annual_rate |-> annual_rate,
                   monthly_payment |-> monthly_payment, extra_payment |-> 0,
                   max_years |-> DefaultMaxYears]
             regular_schedule == generate_amortization_schedule(a)
             accelerated_schedule ==
                 generate_amortization_schedule([a EXCEPT !.extra_payment = extra_payment])
         IN  [original_term |-> [months |-> regular_schedule.months_to_payoff,
                                 years |-> TermYears(regular_schedule.months_to_payoff)],
              new_term |-> [months |-> accelerated_schedule.months_to_payoff,
                            years |-> TermYears(accelerated_schedule.months_to_payoff)],
              months_saved |-> regular_schedule.months_to_payoff
                                  - accelerated_schedule.months_to_payoff,
              interest_saved |-> regular_schedule.total_interest_paid
                                    - accelerated_schedule.total_interest_paid]

----------------------------------------------------------------------------
(* calculate_investment_projection *)

\* x * (annual_return / 12), annual_return in percent
TimesMonthlyReturn(x, annual_return) == (x * annual_return) \div (100 * MonthsPerYear)

\* balance after n further months of: grow, then add the contribution
RECURSIVE ProjectionRun(_, _, _, _)
ProjectionRun(bal, monthly_amount, annual_return, n) ==
    IF n = 0 THEN bal
    ELSE IF n = 1 THEN bal + TimesMonthlyReturn(bal, annual_return) + monthly_amount
    ELSE CHOOSE r \in {ProjectionRun(mid, monthly_amount, annual_return, n - n \div 2) :
                        mid \in {ProjectionRun(bal, monthly_amount, annual_return, n \div 2)}} : TRUE

\* final_balance and risk_adjusted_balance of the returned dictionary; the
\* per-month projection list and the inflation-adjusted values are not kept
calculate_investment_projection(monthly_amount, annual_return, months, risk_factor) ==
    IF monthly_amount <= 0 \/ months <= 0
    THEN [final_balance |-> 0, risk_adjusted_balance |-> 0]
    ELSE LET bal == ProjectionRun(0, monthly_amount, annual_return, months)
         IN  [final_balance |-> bal,
              risk_adjusted_balance |-> bal - (bal * risk_factor) \div 100]

\* the flat discount balance * risk_factor of the final value applied to the
\* entries as well
ProjectionEntry_flat(bal, m, months, risk_factor) ==
    [month |-> m, balance |-> bal,
     risk_adjusted_balance |-> bal - (bal * risk_factor) \div 100]

\* the entry appended for one month: risk_discount is
\* balance * (month / months) * (risk_factor / 10), risk_factor in percent
ProjectionEntry(bal, m, months, risk_factor) ==
    [month |-> m, balance |-> bal,
     risk_adjusted_balance |-> bal - (bal * m * risk_factor) \div (months * 10 * 100)]

----------------------------------------------------------------------------
(* Strategy simulators: simulate_debt_payoff_strategy,                      *)
(* simulate_balanced_strategy, simulate_invest_first_strategy               *)

\* max_months = 30 * 12
max_months == 30 * MonthsPerYear

\* the copies made of the caller's loans; interest_rate stays in 1/100 percent
\* (the code's division by 100 is the change from percent to decimal)
working_loans(loans, high_interest_loans) ==
    [i \in 1..Len(loans) |->
        [id |-> loans[i].id,
         balance |-> loans[i].balance,
         interest_rate |-> loans[i].interest_rate,
         minimum_payment |-> loans[i].minimum_payment,
         is_high_interest |-> \E j \in 1..Len(high_interest_loans) :
                                  high_interest_loans[j] = loans[i]]]

RECURSIVE SumBalance(_, _)
SumBalance(loans, i) ==
    IF i > Len(loans) THEN 0 ELSE loans[i].balance + SumBalance(loans, i + 1)

RECURSIVE SumMinimumPayment(_, _)
SumMinimumPayment(loans, i) ==
    IF i > Len(loans) THEN 0 ELSE loans[i].minimum_payment + SumMinimumPayment(loans, i + 1)

AnyBalance(loans) == \E i \in 1..Len(loans) : loans[i].balance > 0

\* interest charged to one loan in the minimum-payment pass
MinimumInterest(loan) ==
    IF loan.balance <= 0 THEN 0 ELSE TimesMonthlyRate(loan.balance, loan.interest_rate)

\* the minimum payment never adds unpaid interest to the balance
MinimumPayment_capped(loan) ==
    IF loan.balance <= 0 THEN loan
    ELSE LET interest == TimesMonthlyRate(loan.balance, loan.interest_rate)
             payment == Min(loan.minimum_payment, loan.balance + interest)
             principal_payment == Max(0, payment - interest)
         IN  [loan EXCEPT !.balance = SnapBalance(loan.balance - principal_payment)]

\* one loan after the minimum-payment pass
MinimumPayment(loan) ==
    IF loan.balance <= 0 THEN loan
    ELSE LET interest == TimesMonthlyRate(loan.balance, loan.interest_rate)
             payment == Min(loan.minimum_payment, loan.balance + interest)
             principal_payment == payment - interest
         IN  [loan EXCEPT !.balance = SnapBalance(loan.balance - principal_payment)]

\* the loans after the minimum-payment pass, from position i on
RECURSIVE MinimumPayments(_, _)
MinimumPayments(loans, i) ==
    IF i > Len(loans) THEN <<>>
    ELSE <<MinimumPayment(loans[i])>> \o MinimumPayments(loans, i + 1)

RECURSIVE SumMinimumInterest(_, _)
SumMinimumInterest(loans, i) ==
    IF i > Len(loans) THEN 0 ELSE MinimumInterest(loans[i]) + SumMinimumInterest(loans, i + 1)

\* extra payment min(available_surplus, balance) applied to loan i
PayExtra(al, i) ==
    LET extra_payment == Min(al.available_surplus, al.loans[i].balance)
    IN  [loans |-> [al.loans EXCEPT ![i].balance = SnapBalance(@ - extra_payment)],
         available_surplus |-> al.available_surplus - extra_payment]

\* the last loan with a balance instead of the first
FirstPositive_last(loans) ==
    IF AnyBalance(loans)
    THEN CHOOSE i \in 1..Len(loans) :
            /\ loans[i].balance > 0
            /\ \A j \in (i + 1)..Len(loans) : loans[j].balance <= 0
    ELSE 0

\* next(loan for loan in working_loans if loan["balance"] > 0), as an index; 0 is None
FirstPositive(loans) ==
    IF AnyBalance(loans)
    THEN CHOOSE i \in 1..Len(loans) :
            /\ loans[i].balance > 0
            /\ \A j \in 1..(i - 1) : loans[j].balance <= 0
    ELSE 0

\* balanced: the loop over the high-interest loans with a balance, in list
\* order, from position i of the list of targets
RECURSIVE PayHighInterest(_, _, _)
PayHighInterest(al, targets, i) ==
    IF i > Len(targets) \/ al.available_surplus <= 0 THEN al
    ELSE PayHighInterest(PayExtra(al, targets[i]), targets, i + 1)

\* every loan with a balance is a target, whatever its class
RECURSIVE HighInterestTargets_all(_, _)
HighInterestTargets_all(loans, i) ==
    IF i > Len(loans) THEN <<>>
    ELSE IF loans[i].balance > 0
    THEN <<i>> \o HighInterestTargets_all(loans, i + 1)
    ELSE HighInterestTargets_all(loans, i + 1)

\* indices from i on of the loans that are high interest and have a balance
RECURSIVE HighInterestTargets(_, _)
HighInterestTargets(loans, i) ==
    IF i > Len(loans) THEN <<>>
    ELSE IF loans[i].is_high_interest /\ loans[i].balance > 0
    THEN <<i>> \o HighInterestTargets(loans, i + 1)
    ELSE HighInterestTargets(loans, i + 1)

\* a strategy without a branch of its own, invest_first, pays the first loan
\* with a balance like avalanche
ExtraAllocation_always(strategy, loans, monthly_surplus) ==
    LET al == [loans |-> loans, available_surplus |-> monthly_surplus]
    IN  IF strategy = "highest_interest_only"
        THEN IF Len(loans) > 0 /\ loans[1].balance > 0 THEN PayExtra(al, 1) ELSE al
        ELSE IF strategy = "balanced"
        THEN PayHighInterest(al, HighInterestTargets(loans, 1), 1)
        ELSE IF FirstPositive(loans) # 0 THEN PayExtra(al, FirstPositive(loans)) ELSE al

\* highest_interest_only treated like avalanche: the surplus moves on to the
\* next loan with a balance
ExtraAllocation_redirect(strategy, loans, monthly_surplus) ==
    LET al == [loans |-> loans, available_surplus |-> monthly_surplus]
    IN  IF strategy \in {"avalanche", "snowball", "highest_interest_only"}
        THEN IF FirstPositive(loans) # 0 THEN PayExtra(al, FirstPositive(loans)) ELSE al
        ELSE IF strategy = "balanced"
        THEN PayHighInterest(al, HighInterestTargets(loans, 1), 1)
        ELSE al

\* the strategy's extra payments of one month, after the minimum payments
ExtraAllocation(strategy, loans, monthly_surplus) ==
    LET al == [loans |-> loans, available_surplus |-> monthly_surplus]
    IN  IF strategy \in {"avalanche", "snowball"}
        THEN IF FirstPositive(loans) # 0 THEN PayExtra(al, FirstPositive(loans)) ELSE al
        ELSE IF strategy = "highest_interest_only"
        THEN IF Len(loans) > 0 /\ loans[1].balance > 0 THEN PayExtra(al, 1) ELSE al
        ELSE IF strategy = "balanced"
        THEN PayHighInterest(al, HighInterestTargets(loans, 1), 1)
        ELSE al

\* surplus added to the investment balance: invest_first adds the whole
\* surplus, the others what is left when it is positive
Invested(strategy, monthly_surplus, available_surplus) ==
    IF strategy = "invest_first" THEN monthly_surplus
    ELSE IF available_surplus > 0 THEN available_surplus ELSE 0

\* investment_balance *= (1 + monthly_return)
Grow(investment_balance, annual_investment_return) ==
    investment_balance + TimesMonthlyReturn(investment_balance, annual_investment_return)

\* state of a simulation before the first month.  Of monthly_data are kept its
\* last entry, the first month recorded with total_debt = 0 (0: none yet) and
\* the entries sampled into yearly_data.
SimStart(loans) ==
    [loans |-> loans, month |-> 0, total_interest_paid |-> 0, investment_balance |-> 0,
     last |-> None, debt_free_month |-> 0, yearly_data |-> <<>>]

\* the latest month recorded with total_debt = 0 instead of the first
Record_last(s, loans, m, total_debt, investment_balance, total_interest_paid) ==
    LET data == [month |-> m, total_debt |-> total_debt,
                 investment_balance |-> investment_balance,
                 net_worth |-> investment_balance - total_debt,
                 total_interest_paid |-> total_interest_paid]
    IN  [loans |-> loans, month |-> m, total_interest_paid |-> total_interest_paid,
         investment_balance |-> investment_balance,
         last |-> data,
         debt_free_month |-> IF total_debt = 0 THEN m ELSE s.debt_free_month,
         yearly_data |-> IF m % MonthsPerYear = 0
                         THEN Append(s.yearly_data,
                                     [year |-> m \div MonthsPerYear,
                                      netWorth |-> data.net_worth,
                                      investmentValue |-> investment_balance,
                                      debtValue |-> total_debt])
                         ELSE s.yearly_data]

\* monthly_data.append(...) and the yearly sample taken from it
Record(s, loans, m, total_debt, investment_balance, total_interest_paid) ==
    LET data == [month |-> m, total_debt |-> total_debt,
                 investment_balance |-> investment_balance,
                 net_worth |-> investment_balance - total_debt,
                 total_interest_paid |-> total_interest_paid]
    IN  [loans |-> loans, month |-> m, total_interest_paid |-> total_interest_paid,
         investment_balance |-> investment_balance,
         last |-> data,
         debt_free_month |-> IF s.debt_free_month = 0 /\ total_debt = 0
                             THEN m ELSE s.debt_free_month,
         yearly_data |-> IF m % MonthsPerYear = 0
                         THEN Append(s.yearly_data,
                                     [year |-> m \div MonthsPerYear,
                                      netWorth |-> data.net_worth,
                                      investmentValue |-> investment_balance,
                                      debtValue |-> total_debt])
                         ELSE s.yearly_data]

\* one iteration of the first loop (debt remains) or of the second loop (all
\* minimum payments and the surplus are invested); p holds the call's
\* strategy, monthly_surplus, annual_investment_return and total_monthly_payment
SimMonth(p, s) ==
    IF s.month >= max_months THEN s
    ELSE IF AnyBalance(s.loans)
    THEN LET paid == MinimumPayments(s.loans, 1)
             interest == SumMinimumInterest(s.loans, 1)
             al == ExtraAllocation(p.strategy, paid, p.monthly_surplus)
             invested == Invested(p.strategy, p.monthly_surplus, al.available_surplus)
             investment_balance == Grow(s.investment_balance + invested,
                                        p.annual_investment_return)
         IN  Record(s, al.loans, s.month + 1, SumBalance(al.loans, 1),
                    investment_balance, s.total_interest_paid + interest)
    ELSE LET investment_balance == Grow(s.investment_balance + p.total_monthly_payment,
                                        p.annual_investment_return)
         IN  Record(s, s.loans, s.month + 1, 0, investment_balance, s.total_interest_paid)

\* the state after n further iterations, by halves (the one-element set only
\* makes the first half's state a value before the second half starts)
RECURSIVE SimRun(_, _, _)
SimRun(p, s, n) ==
    IF n = 0 THEN s
    ELSE IF n = 1 THEN SimMonth(p, s)
    ELSE CHOOSE r \in {SimRun(p, mid, n - n \div 2) : mid \in {SimRun(p, s, n \div 2)}} : TRUE

\* the dictionary returned after both loops (monthly_data itself is not kept)
SimResult(s) ==
    [final_net_worth |-> IF s.last = None THEN 0 ELSE s.last.net_worth,
     total_interest_paid |-> s.total_interest_paid,
     months_to_debt_free |-> IF s.debt_free_month = 0 THEN max_months ELSE s.debt_free_month,
     investment_value |-> IF s.last = None THEN 0 ELSE s.last.investment_balance,
     yearly_data |-> s.yearly_data]

Simulate(strategy, loans, high_interest_loans, monthly_surplus, annual_investment_return) ==
    LET p == [strategy |-> strategy, monthly_surplus |-> monthly_surplus,
              annual_investment_return |-> annual_investment_return,
              total_monthly_payment |-> SumMinimumPayment(loans, 1) + monthly_surplus]
    IN  SimResult(SimRun(p, SimStart(working_loans(loans, high_interest_loans)), max_months))

ZeroResult ==
    [final_net_worth |-> 0, total_interest_paid |-> 0,
     months_to_debt_free |-> 0, investment_value |-> 0]

simulate_debt_payoff_strategy(loans, monthly_surplus, annual_investment_return, strategy) ==
    IF loans = <<>> \/ monthly_surplus <= 0 THEN ZeroResult
    ELSE Simulate(strategy, loans, <<>>, monthly_surplus, annual_investment_return)

\* stable sort of the loans, highest interest rate first:
\* sorted(loans, key=interest_rate, reverse=True)
RECURSIVE InsertByRate(_, _)
InsertByRate(sorted, loan) ==
    IF sorted = <<>> THEN <<loan>>
    ELSE IF Head(sorted).interest_rate >= loan.interest_rate
    THEN <<Head(sorted)>> \o InsertByRate(Tail(sorted), loan)
    ELSE <<loan>> \o sorted

RECURSIVE SortByRate(_, _)
SortByRate(loans, n) ==
    IF n = 0 THEN <<>> ELSE InsertByRate(SortByRate(loans, n - 1), loans[n])

simulate_balanced_strategy(high_interest_loans, low_interest_loans, monthly_surplus, annual_investment_return) ==
    LET high == SortByRate(high_interest_loans, Len(high_interest_loans))
    IN  Simulate("balanced", high \o low_interest_loans, high,
                 monthly_surplus, annual_investment_return)

simulate_invest_first_strategy(loans, monthly_surplus, annual_investment_return) ==
    Simulate("invest_first", loans, <<>>, monthly_surplus, annual_investment_return)

----------------------------------------------------------------------------
(* calculate_financial_strategy_comparison (the decorated function's body) *)

\* the keys of the strategies dictionary, in insertion order
StrategyKeys ==
    <<"debt_avalanche", "debt_snowball", "highest_interest_first", "balanced", "invest_first">>

StrategyName ==
    [debt_avalanche |-> "Debt Avalanche", debt_snowball |-> "Debt Snowball",
     highest_interest_first |-> "Highest Interest First",
     balanced |-> "Balanced Approach", invest_first |-> "Invest First"]

\* stable sort of the loans, lowest balance first: sorted(loans, key=balance)
RECURSIVE InsertByBalance(_, _)
InsertByBalance(sorted, loan) ==
    IF sorted = <<>> THEN <<loan>>
    ELSE IF Head(sorted).balance <= loan.balance
    THEN <<Head(sorted)>> \o InsertByBalance(Tail(sorted), loan)
    ELSE <<loan>> \o sorted

RECURSIVE SortByBalance(_, _)
SortByBalance(loans, n) ==
    IF n = 0 THEN <<>> ELSE InsertByBalance(SortByBalance(loans, n - 1), loans[n])

\* [loan for loan in loans if test]
RECURSIVE HighInterestLoans(_, _, _)
HighInterestLoans(loans, risk_adjusted_return, i) ==
    IF i > Len(loans) THEN <<>>
    ELSE IF loans[i].interest_rate > risk_adjusted_return
    THEN <<loans[i]>> \o HighInterestLoans(loans, risk_adjusted_return, i + 1)
    ELSE HighInterestLoans(loans, risk_adjusted_return, i + 1)

RECURSIVE LowInterestLoans(_, _, _)
LowInterestLoans(loans, risk_adjusted_return, i) ==
    IF i > Len(loans) THEN <<>>
    ELSE IF loans[i].interest_rate <= risk_adjusted_return
    THEN <<loans[i]>> \o LowInterestLoans(loans, risk_adjusted_return, i + 1)
    ELSE LowInterestLoans(loans, risk_adjusted_return, i + 1)

\* the entry with the signed difference as advantage_amount
LoanComparison_signed(loan, monthly_surplus, annual_investment_return, risk_factor) ==
    LET interest_rate == loan.interest_rate \div 100
        a == [principal |-> loan.balance, annual_rate |-> interest_rate,
              monthly_payment |-> loan.minimum_payment, extra_payment |-> 0,
              max_years |-> DefaultMaxYears]
        baseline == generate_amortization_schedule(a)
        accelerated == generate_amortization_schedule([a EXCEPT !.extra_payment = monthly_surplus])
        interest_saved == baseline.total_interest_paid - accelerated.total_interest_paid
        months_saved == baseline.months_to_payoff - accelerated.months_to_payoff
        investment_projection ==
            calculate_investment_projection(monthly_surplus, annual_investment_return,
                                            accelerated.months_to_payoff, risk_factor)
        risk_adjusted_investment == investment_projection.risk_adjusted_balance
    IN  [loan_id |-> loan.id,
         interest_rate |-> interest_rate * 100,
         principal |-> loan.balance,
         minimum_payment |-> loan.minimum_payment,
         baseline |-> [months_to_payoff |-> baseline.months_to_payoff,
                       total_interest |-> baseline.total_interest_paid],
         accelerated |-> [months_to_payoff |-> accelerated.months_to_payoff,
                          total_interest |-> accelerated.total_interest_paid],
         interest_saved |-> interest_saved,
         months_saved |-> months_saved,
         investment_growth |-> investment_projection.final_balance,
         risk_adjusted_investment |-> risk_adjusted_investment,
         paying_down_better |-> interest_saved > risk_adjusted_investment,
         advantage_amount |-> interest_saved - risk_adjusted_investment]

\* the loan_comparisons entry of one valid loan.  The loan's rate, divided by
\* 100 into a decimal, is what the code passes on as annual_rate.
LoanComparison(loan, monthly_surplus, annual_investment_return, risk_factor) ==
    LET interest_rate == loan.interest_rate \div 100
        a == [principal |-> loan.balance, annual_rate |-> interest_rate,
              monthly_payment |-> loan.minimum_payment, extra_payment |-> 0,
              max_years |-> DefaultMaxYears]
        baseline == generate_amortization_schedule(a)
        accelerated == generate_amortization_schedule([a EXCEPT !.extra_payment = monthly_surplus])
        interest_saved == baseline.total_interest_paid - accelerated.total_interest_paid
        months_saved == baseline.months_to_payoff - accelerated.months_to_payoff
        investment_projection ==
            calculate_investment_projection(monthly_surplus, annual_investment_return,
                                            accelerated.months_to_payoff, risk_factor)
        risk_adjusted_investment == investment_projection.risk_adjusted_balance
    IN  [loan_id |-> loan.id,
         interest_rate |-> interest_rate * 100,
         principal |-> loan.balance,
         minimum_payment |-> loan.minimum_payment,
         baseline |-> [months_to_payoff |-> baseline.months_to_payoff,
                       total_interest |-> baseline.total_interest_paid],
         accelerated |-> [months_to_payoff |-> accelerated.months_to_payoff,
                          total_interest |-> accelerated.total_interest_paid],
         interest_saved |-> interest_saved,
         months_saved |-> months_saved,
         investment_growth |-> investment_projection.final_balance,
         risk_adjusted_investment |-> risk_adjusted_investment,
         paying_down_better |-> interest_saved > risk_adjusted_investment,
         advantage_amount |-> Abs(interest_saved - risk_adjusted_investment)]

RECURSIVE LoanComparisons(_, _, _, _, _)
LoanComparisons(loans, monthly_surplus, annual_investment_return, risk_factor, i) ==
    IF i > Len(loans) THEN <<>>
    ELSE IF \/ loans[i].balance <= 0
            \/ loans[i].interest_rate \div 100 <= 0
            \/ loans[i].minimum_payment <= 0
    THEN LoanComparisons(loans, monthly_surplus, annual_investment_return, risk_factor, i + 1)
    ELSE <<LoanComparison(loans[i], monthly_surplus, annual_investment_return, risk_factor)>>
         \o LoanComparisons(loans, monthly_surplus, annual_investment_return, risk_factor, i + 1)

\* the five simulations, as the strategies dictionary
Strategies(loans, monthly_surplus, annual_investment_return, risk_adjusted_return) ==
    LET sorted_by_rate == SortByRate(loans, Len(loans))
        sorted_by_balance == SortByBalance(loans, Len(loans))
        details ==
            [debt_avalanche |->
                simulate_debt_payoff_strategy(sorted_by_rate, monthly_surplus,
                                              annual_investment_return, "avalanche"),
             debt_snowball |->
                simulate_debt_payoff_strategy(sorted_by_balance, monthly_surplus,
                                              annual_investment_return, "snowball"),
             highest_interest_first |->
                simulate_debt_payoff_strategy(sorted_by_rate, monthly_surplus,
                                              annual_investment_return, "highest_interest_only"),
             balanced |->
                simulate_balanced_strategy(HighInterestLoans(loans, risk_adjusted_return, 1),
                                           LowInterestLoans(loans, risk_adjusted_return, 1),
                                           monthly_surplus, annual_investment_return),
             invest_first |->
                simulate_invest_first_strategy(loans, monthly_surplus, annual_investment_return)]
    IN  [k \in DOMAIN details |-> [name |-> StrategyName[k], details |-> details[k]]]

\* max(strategies.items()) without the key function compares the items by
\* key name and yields the greatest name
BestStrategyKey_nokey(strategies) == StrategyKeys[Len(StrategyKeys)]

\* max(strategies.items(), key=final_net_worth): the first key, in insertion
\* order, whose final_net_worth no other exceeds
BestStrategyKey(strategies) ==
    LET i == CHOOSE i \in 1..Len(StrategyKeys) :
                /\ \A j \in 1..Len(StrategyKeys) :
                      strategies[StrategyKeys[j]].details.final_net_worth
                          <= strategies[StrategyKeys[i]].details.final_net_worth
                /\ \A j \in 1..(i - 1) :
                      strategies[StrategyKeys[j]].details.final_net_worth
                          < strategies[StrategyKeys[i]].details.final_net_worth
    IN  StrategyKeys[i]

\* net_worth_advantage; percent is in 1/10 of a percent
NetWorthAdvantage(strategies, best_strategy_key) ==
    [key \in (DOMAIN strategies) \ {best_strategy_key} |->
        LET other == strategies[key].details.final_net_worth
            advantage == strategies[best_strategy_key].details.final_net_worth - other
        IN  [amount |-> advantage,
             percent |-> IF other > 0 THEN (advantage * 100 * 10) \div other ELSE 0]]

NoRecommendation ==
    [recommendation |->
        [best_strategy |-> "No Recommendation",
         reason |-> "Insufficient data or no surplus available",
         interest_savings |-> 0,
         months_saved |-> 0,
         investment_value_after_loan_payoff |-> 0,
         investment_value_immediate_invest |-> 0,
         total_savings_advantage |-> 0]]

\* the early return taken only when both conditions hold
strategy_comparison_and(loans, monthly_surplus, annual_investment_return, risk_factor) ==
    IF loans = <<>> /\ monthly_surplus <= 0 THEN NoRecommendation
    ELSE LET risk_adjusted_return == annual_investment_return * (100 - risk_factor)
             strategies == Strategies(loans, monthly_surplus, annual_investment_return,
                                      risk_adjusted_return)
             best_strategy_key == BestStrategyKey(strategies)
         IN  [recommendation |->
                 [best_strategy |-> strategies[best_strategy_key].name,
                  strategy_key |-> best_strategy_key,
                  net_worth_advantage |-> NetWorthAdvantage(strategies, best_strategy_key),
                  risk_adjusted_return |-> risk_adjusted_return * 100],
              strategies |-> strategies,
              loan_comparisons |-> LoanComparisons(loans, monthly_surplus,
                                                   annual_investment_return, risk_factor, 1),
              risk_adjusted_return |-> risk_adjusted_return]

\* The returned dictionary.  recommendation["details"] is the very dictionary
\* strategies[strategy_key]["details"], so it is not stored a second time:
\* RecommendationDetails reads it through strategy_key.  risk_adjusted_return
\* is in 1/10000, like the loans' interest_rate.
strategy_comparison(loans, monthly_surplus, annual_investment_return, risk_factor) ==
    IF loans = <<>> \/ monthly_surplus <= 0 THEN NoRecommendation
    ELSE LET risk_adjusted_return == annual_investment_return * (100 - risk_factor)
             strategies == Strategies(loans, monthly_surplus, annual_investment_return,
                                      risk_adjusted_return)
             best_strategy_key == BestStrategyKey(strategies)
         IN  [recommendation |->
                 [best_strategy |-> strategies[best_strategy_key].name,
                  strategy_key |-> best_strategy_key,
                  net_worth_advantage |-> NetWorthAdvantage(strategies, best_strategy_key),
                  risk_adjusted_return |-> risk_adjusted_return * 100],
              strategies |-> strategies,
              loan_comparisons |-> LoanComparisons(loans, monthly_surplus,
                                                   annual_investment_return, risk_factor, 1),
              risk_adjusted_return |-> risk_adjusted_return]

\* recommendation["details"]
RecommendationDetails(result) ==
    result.strategies[result.recommendation.strategy_key].details

----------------------------------------------------------------------------
(* The amortization functions applied to one argument tuple *)

\* max_years when the caller does not use the default
ShortMaxYears == 1

Principals == {0, 10005, 20000}
AnnualRates == {0, 1200}
MonthlyPayments == {0, 100, 400, 6000}
ExtraPayments == {0, 500}
MaxYears == {ShortMaxYears, DefaultMaxYears}

ArgSpace ==
    [principal : Principals, annual_rate : AnnualRates,
     monthly_payment : MonthlyPayments, extra_payment : ExtraPayments,
     max_years : MaxYears]

Init ==
    /\ args \in ArgSpace
    /\ pc = "term"
    /\ loan_term = None
    /\ interest_paid = None
    /\ balance = 0
    /\ month = 0
    /\ total_interest = 0
    /\ schedule = <<>>
    /\ strategy_cache = <<>>
    /\ heap = <<>>
    /\ calls = <<>>
    /\ requests = 0
    /\ limiter = None
    /\ sim = None
    /\ fn = None

CallLoanTerm ==
    /\ pc = "term"
    /\ loan_term' = calculate_loan_term(args.principal, args.annual_rate, args.monthly_payment)
    /\ pc' = "interest"
    /\ UNCHANGED <<args, interest_paid, balance, month, total_interest, schedule>>
    /\ UNCHANGED <<strategy_vars, sim, fn, limiter>>

CallTotalInterestPaid ==
    /\ pc = "interest"
    /\ interest_paid' = calculate_total_interest_paid(args.principal, args.annual_rate,
                                                      args.monthly_payment)
    /\ pc' = "schedule"
    /\ UNCHANGED <<args, loan_term, balance, month, total_interest, schedule>>
    /\ UNCHANGED <<strategy_vars, sim, fn, limiter>>

\* generate_amortization_schedule up to the loop: the early return, or the
\* initialisation of the locals
ScheduleEnter ==
    /\ pc = "schedule"
    /\ IF args.principal <= 0 \/ args.monthly_payment <= 0
       THEN /\ pc' = "done"
            /\ UNCHANGED balance
       ELSE /\ pc' = "loop"
            /\ balance' = args.principal
    /\ month' = 0
    /\ total_interest' = 0
    /\ schedule' = <<>>
    /\ UNCHANGED <<args, loan_term, interest_paid>>
    /\ UNCHANGED <<strategy_vars, sim, fn, limiter>>

\* one iteration of `while balance > 0 and month < max_payments`
ScheduleIterate ==
    /\ pc = "loop"
    /\ balance > 0 /\ month < max_payments(args)
    /\ LET e == ScheduleEntry(args, balance, month)
       IN  /\ total_interest' = total_interest + e.interest_due
           /\ schedule' = Append(schedule, EntryFields(e))
           /\ balance' = SnapBalance(e.remaining_balance)
           /\ month' = month + 1
    /\ UNCHANGED <<args, pc, loan_term, interest_paid>>
    /\ UNCHANGED <<strategy_vars, sim, fn, limiter>>

\* the loop condition fails: return schedule, total_interest, month
ScheduleReturn ==
    /\ pc = "loop"
    /\ ~(balance > 0 /\ month < max_payments(args))
    /\ pc' = "done"
    /\ UNCHANGED <<args, loan_term, interest_paid, balance, month, total_interest, schedule>>
    /\ UNCHANGED <<strategy_vars, sim, fn, limiter>>

Next ==
    \/ CallLoanTerm
    \/ CallTotalInterestPaid
    \/ ScheduleEnter
    \/ ScheduleIterate
    \/ ScheduleReturn

Spec == Init /\ [][Next]_vars

----------------------------------------------------------------------------
(* Properties of the amortization functions *)

\* sums over schedule entries lo..hi, by halves
RECURSIVE SumPrincipalAndExtra(_, _, _)
SumPrincipalAndExtra(s, lo, hi) ==
    IF lo > hi THEN 0
    ELSE IF lo = hi THEN s[lo].principal_payment + s[lo].extra_payment
    ELSE LET mid == (lo + hi) \div 2
         IN  SumPrincipalAndExtra(s, lo, mid) + SumPrincipalAndExtra(s, mid + 1, hi)

RECURSIVE SumInterestPayment(_, _, _)
SumInterestPayment(s, lo, hi) ==
    IF lo > hi THEN 0
    ELSE IF lo = hi THEN s[lo].interest_payment
    ELSE LET mid == (lo + hi) \div 2
         IN  SumInterestPayment(s, lo, mid) + SumInterestPayment(s, mid + 1, hi)

\* principal > 0, rate >= 0 and a payment above the first month's interest
Amortizing(a) ==
    /\ a.principal > 0
    /\ a.annual_rate >= 0
    /\ a.monthly_payment > 0
    /\ a.monthly_payment * RateDen > a.principal * a.annual_rate

\* the schedule call has returned because the balance reached 0
PaidOff == pc = "done" /\ schedule # <<>> /\ balance = 0

\* remaining_balance never increases from one entry to the next, starting from
\* the principal
NonIncreasing ==
    \A i \in 1..Len(schedule) :
        schedule[i].remaining_balance
            <= (IF i = 1 THEN args.principal ELSE schedule[i - 1].remaining_balance)

\* C1: for an amortizing loan, generate_amortization_schedule ends with the
\* remaining_balance of the last schedule entry exactly 0.
C1_FinalBalanceZero ==
    (PaidOff /\ Amortizing(args))
        => schedule[Len(schedule)].remaining_balance = 0

\* C2: for an amortizing loan and any extra payment, the sum over the schedule
\* of principal_payment + extra_payment equals the principal, within the
\* rounding tolerance of one snapping threshold.
C2_PrincipalSum ==
    (PaidOff /\ Amortizing(args))
        => Abs(SumPrincipalAndExtra(schedule, 1, Len(schedule)) - args.principal)
               <= Threshold

\* C3 (as stated): for any principal > 0 and monthly_payment > 0, whatever the
\* rate and extra payment, remaining_balance never increases along the
\* schedule and starts at most at the principal.
C3_MonotoneAnyInput ==
    (args.principal > 0 /\ args.monthly_payment > 0) => NonIncreasing

\* C3 (amended): when the monthly payment is at least the first month's
\* interest (principal * monthly_rate), remaining_balance never increases
\* along the schedule and starts at most at the principal.
C3_MonotoneWhenInterestCovered ==
    (/\ args.principal > 0
     /\ args.monthly_payment > 0
     /\ args.monthly_payment * RateDen >= args.principal * args.annual_rate)
        => NonIncreasing

C3_Witness ==
    /\ PaidOff
    /\ args.annual_rate > 0
    /\ args.monthly_payment * RateDen >= args.principal * args.annual_rate
    /\ Len(schedule) >= 3
    /\ schedule[2].remaining_balance < schedule[1].remaining_balance
    /\ schedule[1].remaining_balance < args.principal

\* C4: with no extra payment, calculate_total_interest_paid returns the sum of
\* the interest_payment fields of the schedule generated from the same
\* principal, rate and payment.
C4_InterestMatchesSchedule ==
    (PaidOff /\ Amortizing(args) /\ args.extra_payment = 0)
        => /\ interest_paid.inf = FALSE
           /\ Abs(interest_paid.val - SumInterestPayment(schedule, 1, Len(schedule)))
                  <= Threshold

\* monthly_payment <= principal * monthly_rate
PaymentWithinInterest(a) == a.monthly_payment * RateDen <= a.principal * a.annual_rate

\* C5 (as stated): for every principal, rate and payment with
\* monthly_payment <= principal * monthly_rate, calculate_loan_term returns
\* infinite months and years.
C5_InfiniteTermAnyInput ==
    (loan_term # None /\ PaymentWithinInterest(args))
        => loan_term = [months |-> INF, years |-> INF]

\* C5 (amended): for principal > 0 and monthly_payment > 0 with
\* monthly_payment <= principal * monthly_rate, calculate_loan_term returns
\* infinite months and years.
C5_InfiniteTermPositiveInput ==
    (/\ loan_term # None
     /\ args.principal > 0
     /\ args.monthly_payment > 0
     /\ PaymentWithinInterest(args))
        => loan_term = [months |-> INF, years |-> INF]

C5_Witness ==
    /\ args.principal > 0
    /\ args.monthly_payment > 0
    /\ PaymentWithinInterest(args)
    /\ loan_term = [months |-> INF, years |-> INF]

----------------------------------------------------------------------------
(* The memoized comparison and the strategy endpoint                        *)
(*                                                                          *)
(* calculate_financial_strategy_comparison is wrapped by cachetools.cached  *)
(* over strategy_cache = TTLCache(maxsize=100, ttl=3600).  A hit returns    *)
(* the stored dictionary itself, so heap holds the dictionaries by identity *)
(* and strategy_cache maps a key to the identity stored under it.  The      *)
(* endpoint get_financial_strategy has no await between its first and last  *)
(* statement and so runs as one step.  The size bound of 100 entries is not *)
(* reached by the inputs below and eviction by size is not represented;     *)
(* inflation_rate only feeds the inflation-adjusted projection values,      *)
(* which the comparison does not return.                                    *)

\* number of requests and direct calls in a behaviour
MaxCalls == 2

\* the loans of the requests, in USD
LoanA == [id |-> 1, balance |-> 3000, interest_rate |-> 1800, minimum_payment |-> 100]
LoanB == [id |-> 2, balance |-> 5000, interest_rate |-> 500, minimum_payment |-> 100]
LoanC == [id |-> 3, balance |-> 2000, interest_rate |-> 300, minimum_payment |-> 50]

LoanLists == {<<>>, <<LoanB, LoanA>>, <<LoanC>>}
Surpluses == {0, 200}
InvestmentReturns == {7}
RiskFactors == {20, 30}
Currencies == {"DKK", "USD"}

\* exchange rates times 10; the fallback table is {"USD": 1.0, "DKK": 6.8991310126}
Rates == [USD |-> 10, DKK |-> 69]

RateOf(currency) == IF currency \in DOMAIN Rates THEN Rates[currency] ELSE 10

convert_currency(amount, from_currency, to_currency) ==
    IF from_currency = to_currency THEN amount
    ELSE LET usd == IF from_currency # "USD"
                    THEN (amount * 10) \div RateOf(from_currency)
                    ELSE amount
         IN  IF to_currency # "USD" THEN (usd * RateOf(to_currency)) \div 10 ELSE usd

\* min(0.9, risk_factor * 1.5) and max(0.1, risk_factor * 0.5)
pessimistic_risk_factor(risk_factor) == Min(90, (risk_factor * 3) \div 2)
optimistic_risk_factor(risk_factor) == Max(10, risk_factor \div 2)

\* the arguments the comparison can be called with
ComparisonArgs ==
    [loans : LoanLists, monthly_surplus : Surpluses,
     annual_investment_return : InvestmentReturns,
     risk_factor : RiskFactors \cup {pessimistic_risk_factor(r) : r \in RiskFactors}
                               \cup {optimistic_risk_factor(r) : r \in RiskFactors}]

\* the undecorated function on each argument tuple, evaluated once
ComparisonTable ==
    {<<a, strategy_comparison(a.loans, a.monthly_surplus, a.annual_investment_return,
                              a.risk_factor)>> : a \in ComparisonArgs}

Computed(a) == (CHOOSE p \in ComparisonTable : p[1] = a)[2]

\* key=lambda loans, monthly_surplus, **kwargs: f"{hash(str(loans))}-{monthly_surplus}"
\* (two loan lists with the same text have the same key; hash collisions of
\* different texts are not represented)
CacheKey(a) == <<a.loans, a.monthly_surplus>>

\* cached(...)'s wrapper: return cache[k] when present, else call the function,
\* store its result under k and return it
MemoCall(cache, hp, a) ==
    IF CacheKey(a) \in DOMAIN cache
    THEN [cache |-> cache, heap |-> hp, ref |-> cache[CacheKey(a)]]
    ELSE [cache |-> [k \in DOMAIN cache \cup {CacheKey(a)} |->
                        IF k = CacheKey(a) THEN Len(hp) + 1 ELSE cache[k]],
          heap |-> Append(hp, Computed(a)),
          ref |-> Len(hp) + 1]

\* what one invocation is remembered by: its arguments, the identity it
\* returned and the dictionary's contents when it returned
CallRecord(a, c) == [args |-> a, ref |-> c.ref, result |-> c.heap[c.ref]]

\* the in-place conversion of strategy_results to the requested currency
ConvertDetails(details, currency) ==
    IF "final_net_worth" \in DOMAIN details
    THEN [k \in DOMAIN details |->
            IF k \in {"final_net_worth", "total_interest_paid", "investment_value"}
            THEN convert_currency(details[k], "USD", currency)
            ELSE IF k = "yearly_data"
            THEN [i \in 1..Len(details[k]) |->
                    [year |-> details[k][i].year,
                     netWorth |-> convert_currency(details[k][i].netWorth, "USD", currency),
                     investmentValue |->
                        convert_currency(details[k][i].investmentValue, "USD", currency),
                     debtValue |-> convert_currency(details[k][i].debtValue, "USD", currency)]]
            ELSE details[k]]
    ELSE details

ConvertLoanComparison(lc, currency) ==
    [lc EXCEPT
        !.principal = convert_currency(@, "USD", currency),
        !.minimum_payment = convert_currency(@, "USD", currency),
        !.interest_saved = convert_currency(@, "USD", currency),
        !.investment_growth = convert_currency(@, "USD", currency),
        !.risk_adjusted_investment = convert_currency(@, "USD", currency),
        !.advantage_amount = convert_currency(@, "USD", currency),
        !.baseline.total_interest = convert_currency(@, "USD", currency),
        !.accelerated.total_interest = convert_currency(@, "USD", currency)]

\* a result without "strategies" raises KeyError, which the endpoint turns
\* into an error response: the dictionary is left as it was
ConvertResult(result, currency) ==
    IF "strategies" \in DOMAIN result
    THEN [result EXCEPT
            !.strategies = [k \in DOMAIN @ |->
                               [@[k] EXCEPT !.details = ConvertDetails(@, currency)]],
            !.loan_comparisons = [i \in 1..Len(@) |-> ConvertLoanComparison(@[i], currency)]]
    ELSE result

\* a loan of the request body, whose amounts are in the request's currency
RequestLoans(loans, currency) ==
    [i \in 1..Len(loans) |->
        [loans[i] EXCEPT !.balance = convert_currency(@, "USD", currency),
                         !.minimum_payment = convert_currency(@, "USD", currency)]]

InitStrategy ==
    /\ args = None
    /\ pc = "idle"
    /\ loan_term = None
    /\ interest_paid = None
    /\ balance = 0
    /\ month = 0
    /\ total_interest = 0
    /\ schedule = <<>>
    /\ strategy_cache = <<>>
    /\ heap = <<>>
    /\ calls = <<>>
    /\ requests = 0
    /\ limiter = None
    /\ sim = None
    /\ fn = None

\* POST /api/user/{user_id}/financial-strategy.  c1, c2 and c3 are the cache
\* and the heap after the standard, the pessimistic and the optimistic call.
get_financial_strategy(request) ==
    /\ requests < MaxCalls
    \* an empty loan list or a surplus <= 0 is answered with 422 before any call
    /\ request.loans # <<>> /\ request.monthly_surplus > 0
    /\ LET loans_dict ==
               [i \in 1..Len(request.loans) |->
                   [request.loans[i] EXCEPT
                       !.balance = convert_currency(@, request.currency, "USD"),
                       !.minimum_payment = convert_currency(@, request.currency, "USD")]]
           monthly_surplus_usd ==
               convert_currency(request.monthly_surplus, request.currency, "USD")
           a == [loans |-> loans_dict, monthly_surplus |-> monthly_surplus_usd,
                 annual_investment_return |-> request.annual_investment_return,
                 risk_factor |-> request.risk_factor]
           pessimistic == [a EXCEPT !.risk_factor = pessimistic_risk_factor(@)]
           optimistic == [a EXCEPT !.risk_factor = optimistic_risk_factor(@)]
       IN  \E c1 \in {MemoCall(strategy_cache, heap, a)} :
           \E c2 \in {IF request.include_risk_analysis
                      THEN MemoCall(c1.cache, c1.heap, pessimistic) ELSE c1} :
           \E c3 \in {IF request.include_risk_analysis
                      THEN MemoCall(c2.cache, c2.heap, optimistic) ELSE c2} :
               /\ strategy_cache' = c3.cache
               /\ heap' = [c3.heap EXCEPT ![c1.ref] = ConvertResult(@, request.currency)]
               /\ calls' = calls \o
                      (IF request.include_risk_analysis
                       THEN <<CallRecord(a, c1), CallRecord(pessimistic, c2),
                              CallRecord(optimistic, c3)>>
                       ELSE <<CallRecord(a, c1)>>)
    /\ requests' = requests + 1
    /\ UNCHANGED <<amort_vars, sim, fn, limiter>>

\* any other caller of calculate_financial_strategy_comparison, which only
\* reads the result
CallComparison(a) ==
    /\ requests < MaxCalls
    /\ \E c \in {MemoCall(strategy_cache, heap, a)} :
          /\ strategy_cache' = c.cache
          /\ heap' = c.heap
          /\ calls' = Append(calls, CallRecord(a, c))
    /\ requests' = requests + 1
    /\ UNCHANGED <<amort_vars, sim, fn, limiter>>

\* an hour passes for the entry stored under key: the TTLCache drops it
Expire(key) ==
    /\ key \in DOMAIN strategy_cache
    /\ strategy_cache' = [k \in (DOMAIN strategy_cache) \ {key} |-> strategy_cache[k]]
    /\ UNCHANGED <<heap, calls, requests>>
    /\ UNCHANGED <<amort_vars, sim, fn, limiter>>

Requests ==
    {[loans |-> RequestLoans(l, c), monthly_surplus |-> convert_currency(s, "USD", c),
      annual_investment_return |-> r, risk_factor |-> 20, currency |-> c,
      include_risk_analysis |-> i] :
        l \in LoanLists, s \in Surpluses, r \in InvestmentReturns,
        c \in Currencies, i \in BOOLEAN}

NextStrategy ==
    \/ \E request \in Requests : get_financial_strategy(request)
    \/ \E a \in ComparisonArgs : a.risk_factor \in RiskFactors /\ CallComparison(a)
    \/ \E key \in DOMAIN strategy_cache : Expire(key)

SpecStrategy == InitStrategy /\ [][NextStrategy]_vars

----------------------------------------------------------------------------
(* Properties of the comparison as its callers see it                       *)

Degenerate(a) == a.loans = <<>> \/ a.monthly_surplus <= 0

\* the recommendation of a result with the details dictionary it refers to
Recommendation(result) ==
    IF "strategies" \in DOMAIN result
    THEN [recommendation |-> result.recommendation, details |-> RecommendationDetails(result)]
    ELSE [recommendation |-> result.recommendation]

\* C6: two invocations with identical arguments return the same
\* recommendation (best strategy, its details, the advantage map), whatever a
\* caller did to the earlier result in between, and the later invocation
\* returns a dictionary of its own, not the one returned earlier.
C6_SameInputSameFreshResult ==
    \A i, j \in 1..Len(calls) :
        (i < j /\ calls[i].args = calls[j].args)
            => /\ Recommendation(calls[i].result) = Recommendation(calls[j].result)
               /\ calls[i].ref # calls[j].ref

\* C7: every invocation of the memoized function returns what the undecorated
\* function computes for the same loans, monthly_surplus,
\* annual_investment_return and risk_factor.
C7_CachePureOptimization ==
    \A i \in 1..Len(calls) : calls[i].result = Computed(calls[i].args)

HasMaxNetWorth(result) ==
    \A k \in DOMAIN result.strategies :
        result.strategies[k].details.final_net_worth
            <= RecommendationDetails(result).final_net_worth

\* C8: for a non-empty loan list and a positive surplus the recommended
\* strategy's final net worth is at least that of every simulated strategy,
\* in every returned result and in every stored dictionary.
C8_RecommendedHasMaxNetWorth ==
    /\ \A i \in 1..Len(calls) :
          ~Degenerate(calls[i].args) => HasMaxNetWorth(calls[i].result)
    /\ \A r \in 1..Len(heap) :
          "strategies" \in DOMAIN heap[r] => HasMaxNetWorth(heap[r])

\* a returned recommendation that is not the first strategy of the dictionary
\* and that strictly beats another strategy
C8_Witness ==
    \E i \in 1..Len(calls) :
        /\ ~Degenerate(calls[i].args)
        /\ calls[i].result.recommendation.strategy_key # StrategyKeys[1]
        /\ \E k \in DOMAIN calls[i].result.strategies :
              calls[i].result.strategies[k].details.final_net_worth
                  < RecommendationDetails(calls[i].result).final_net_worth

\* C9: in a returned result the advantage map has one entry per strategy
\* other than the recommended one; its amount is the recommended strategy's
\* final net worth minus the other's, and its percent is that amount times
\* 100 over the other's final net worth when that is positive, else 0.
C9_AdvantageMap ==
    \A i \in 1..Len(calls) :
        ~Degenerate(calls[i].args) =>
            LET result == calls[i].result
                best == result.recommendation.strategy_key
                advantage == result.recommendation.net_worth_advantage
            IN  /\ DOMAIN advantage = (DOMAIN result.strategies) \ {best}
                /\ \A k \in DOMAIN advantage :
                      LET other == result.strategies[k].details.final_net_worth
                          amount == RecommendationDetails(result).final_net_worth - other
                      IN  /\ advantage[k].amount = amount
                          /\ advantage[k].percent =
                                IF other > 0 THEN (amount * 100 * 10) \div other ELSE 0

\* C10: called with an empty loan list or with a surplus <= 0, the comparison
\* returns the "No Recommendation" result, whose metrics are all 0 and which
\* has no simulated strategy in it.
C10_DegenerateNoRecommendation ==
    \A i \in 1..Len(calls) :
        Degenerate(calls[i].args) =>
            /\ calls[i].result.recommendation.best_strategy = "No Recommendation"
            /\ calls[i].result.recommendation.interest_savings = 0
            /\ calls[i].result.recommendation.months_saved = 0
            /\ calls[i].result.recommendation.investment_value_after_loan_payoff = 0
            /\ calls[i].result.recommendation.investment_value_immediate_invest = 0
            /\ calls[i].result.recommendation.total_savings_advantage = 0
            /\ DOMAIN calls[i].result = {"recommendation"}

\* one call with no loans and one with loans and no surplus have returned
C10_Witness ==
    \E i, j \in 1..Len(calls) :
        /\ calls[i].args.loans = <<>> /\ calls[i].args.monthly_surplus > 0
        /\ calls[j].args.loans # <<>> /\ calls[j].args.monthly_surplus <= 0

----------------------------------------------------------------------------
(* The strategy simulators, month by month                                  *)
(*                                                                          *)
(* The simulators are called only by the comparison, after its guard: with  *)
(* a non-empty loan list and a positive surplus.  sim holds one such call   *)
(* and the locals of its loops, monthly_data among them; SimMonth is one    *)
(* iteration.                                                               *)

\* a loan whose minimum payment is below its monthly interest
LoanD == [id |-> 4, balance |-> 5000, interest_rate |-> 1800, minimum_payment |-> 50]

\* a loan at no interest and an overpaid loan, whose balance is a credit (the
\* request's balances are not validated)
LoanE == [id |-> 5, balance |-> 100000, interest_rate |-> 0, minimum_payment |-> 10000]
LoanF == [id |-> 6, balance |-> -90000, interest_rate |-> 0, minimum_payment |-> 0]

\* the smaller loan has the smaller minimum payment: after one month it is
\* the larger of the two
LoanH == [id |-> 9, balance |-> 3000, interest_rate |-> 500, minimum_payment |-> 50]
LoanI == [id |-> 10, balance |-> 3500, interest_rate |-> 500, minimum_payment |-> 1000]

\* a loan without a minimum payment
LoanG == [id |-> 8, balance |-> 2000, interest_rate |-> 300, minimum_payment |-> 0]

SimLoanLists ==
    {<<LoanB, LoanA>>, <<LoanC>>, <<LoanD, LoanC>>, <<LoanE, LoanF>>, <<LoanD>>, <<LoanG>>,
     <<LoanI, LoanH>>}
SimSurpluses == {50, 200}

\* The loan dictionaries as objects.  sim.objects holds the caller's
\* dictionaries at the positions of the caller's list, followed by the
\* dictionaries the simulator creates; a list of loans is a list of positions.

\* the caller's own list, which the engine only reads
CallerList(c) == [i \in 1..Len(c.input) |-> i]

\* the list passed to the simulator: sorted(...) and the list comprehensions
\* build a new list of the caller's dictionaries
PassedRefs(c) ==
    [i \in 1..Len(c.loans) |-> CHOOSE r \in 1..Len(c.input) : c.input[r] = c.loans[i]]

\* working_loans.append(loan): the list of copies holds the caller's dictionaries
CopyRefs_alias(passed, n) == passed

\* working_loans.append({...}): one new dictionary for each loan passed
CopyRefs(passed, n) == [i \in 1..Len(passed) |-> n + i]

\* the objects after the month's assignments to loan["balance"] of the
\* working loans, from position r on
RECURSIVE Store(_, _, _, _)
Store(objects, refs, loans, r) ==
    IF r > Len(objects) THEN <<>>
    ELSE <<IF \E i \in 1..Len(refs) : refs[i] = r
           THEN loans[CHOOSE i \in 1..Len(refs) : refs[i] = r]
           ELSE objects[r]>> \o Store(objects, refs, loans, r + 1)

\* the call the comparison makes for the strategy stored under key: the
\* simulator's policy, the loans in the order passed and, for balanced, the
\* high-interest loans
SimCall(key, loans, monthly_surplus, annual_investment_return, risk_factor) ==
    LET risk_adjusted_return == annual_investment_return * (100 - risk_factor)
        high == SortByRate(HighInterestLoans(loans, risk_adjusted_return, 1),
                           Len(HighInterestLoans(loans, risk_adjusted_return, 1)))
        low == LowInterestLoans(loans, risk_adjusted_return, 1)
        passed == IF key \in {"debt_avalanche", "highest_interest_first"}
                  THEN SortByRate(loans, Len(loans))
                  ELSE IF key = "debt_snowball" THEN SortByBalance(loans, Len(loans))
                  ELSE IF key = "balanced" THEN high \o low
                  ELSE loans
    IN  [key |-> key,
         strategy |-> IF key = "debt_avalanche" THEN "avalanche"
                      ELSE IF key = "debt_snowball" THEN "snowball"
                      ELSE IF key = "highest_interest_first" THEN "highest_interest_only"
                      ELSE key,
         input |-> loans,
         loans |-> passed,
         high_interest_loans |-> IF key = "balanced" THEN high ELSE <<>>,
         low_interest_loans |-> IF key = "balanced" THEN low ELSE <<>>,
         risk_factor |-> risk_factor,
         risk_adjusted_return |-> risk_adjusted_return,
         monthly_surplus |-> monthly_surplus,
         annual_investment_return |-> annual_investment_return,
         total_monthly_payment |-> SumMinimumPayment(passed, 1) + monthly_surplus]

SimCalls ==
    {SimCall(StrategyKeys[k], l, m, r, f) :
        k \in 1..Len(StrategyKeys), l \in SimLoanLists, m \in SimSurpluses,
        r \in InvestmentReturns, f \in RiskFactors}

InitSim ==
    /\ args = None
    /\ pc = "idle"
    /\ loan_term = None
    /\ interest_paid = None
    /\ balance = 0
    /\ month = 0
    /\ total_interest = 0
    /\ schedule = <<>>
    /\ strategy_cache = <<>>
    /\ heap = <<>>
    /\ calls = <<>>
    /\ requests = 0
    /\ limiter = None
    /\ fn = None
    /\ \E c \in SimCalls :
          sim = [call |-> c,
                 s |-> SimStart(working_loans(c.loans, c.high_interest_loans)),
                 monthly_data |-> <<>>, pc |-> "loop", result |-> None,
                 caller |-> CallerList(c),
                 working |-> CopyRefs(PassedRefs(c), Len(c.input)),
                 objects |-> c.input \o working_loans(c.loans, c.high_interest_loans)]

\* one iteration of `while any(loan["balance"] > 0 ...) and month < max_months`
SimDebtMonth ==
    /\ sim # None /\ sim.pc = "loop"
    /\ AnyBalance(sim.s.loans) /\ sim.s.month < max_months
    /\ \E s \in {SimMonth(sim.call, sim.s)} :
          sim' = [sim EXCEPT !.s = s, !.monthly_data = Append(@, s.last),
                             !.objects = Store(@, sim.working, s.loans, 1)]
    /\ UNCHANGED <<amort_vars, strategy_vars, fn, limiter>>

\* one iteration of the second loop, `while month < max_months`
SimInvestMonth ==
    /\ sim # None /\ sim.pc = "loop"
    /\ ~AnyBalance(sim.s.loans) /\ sim.s.month < max_months
    /\ \E s \in {SimMonth(sim.call, sim.s)} :
          sim' = [sim EXCEPT !.s = s, !.monthly_data = Append(@, s.last),
                             !.objects = Store(@, sim.working, s.loans, 1)]
    /\ UNCHANGED <<amort_vars, strategy_vars, fn, limiter>>

\* both loops are over: the summary is returned
SimReturn ==
    /\ sim # None /\ sim.pc = "loop"
    /\ sim.s.month >= max_months
    /\ sim' = [sim EXCEPT !.pc = "done", !.result = SimResult(sim.s)]
    /\ UNCHANGED <<amort_vars, strategy_vars, fn, limiter>>

NextSim ==
    \/ SimDebtMonth
    \/ SimInvestMonth
    \/ SimReturn

SpecSim == InitSim /\ [][NextSim]_vars

\* the summary returned step by step is the one the comparison stores
SimAgreesWithComparison ==
    (sim # None /\ sim.pc = "done") =>
        sim.result = Strategies(sim.call.input, sim.call.monthly_surplus,
                                sim.call.annual_investment_return,
                                sim.call.risk_adjusted_return)[sim.call.key].details

----------------------------------------------------------------------------
(* Properties of the simulated months                                       *)

\* the loans of the simulation after this month's minimum payments
AfterMinimum == MinimumPayments(sim.s.loans, 1)

\* C11: under avalanche and snowball, in every month while debt remains, the
\* first loan of the passed order with a balance left after the minimum
\* payments is paid min(surplus, its balance) extra (a remainder under 0.01 is
\* dropped), and every other loan ends the month with the balance its minimum
\* payment left; the target is found anew each month, so the next loan takes
\* over once the earlier ones are at zero.
C11_ExtraToFirstPositive ==
    [][(SimDebtMonth /\ sim.call.strategy \in {"avalanche", "snowball"}) =>
        \A i \in 1..Len(AfterMinimum) :
            LET target == /\ AfterMinimum[i].balance > 0
                          /\ \A j \in 1..(i - 1) : AfterMinimum[j].balance <= 0
                extra == Min(sim.call.monthly_surplus, AfterMinimum[i].balance)
                left == AfterMinimum[i].balance - extra
            IN  sim'.s.loans[i].balance =
                    IF target THEN (IF left < Threshold THEN 0 ELSE left)
                    ELSE AfterMinimum[i].balance]_vars

\* avalanche or snowball some months in: the first loan is paid off, the
\* second is not, and the second has come down faster than by its minimum
\* payments (which cover at most minimum_payment a month)
C11_Witness ==
    /\ sim # None /\ sim.pc = "loop"
    /\ sim.call.strategy \in {"avalanche", "snowball"}
    /\ Len(sim.s.loans) >= 2
    /\ sim.s.loans[1].balance = 0
    /\ sim.s.loans[2].balance > 0
    /\ sim.s.loans[2].balance
          < sim.call.loans[2].balance - sim.s.month * sim.call.loans[2].minimum_payment

\* whether a loan's annual rate exceeds annual_investment_return * (1 - risk_factor)
ExceedsRiskAdjusted(loan) ==
    loan.interest_rate > sim.call.annual_investment_return * (100 - sim.call.risk_factor)

Occurrences(loans, loan) == Cardinality({i \in 1..Len(loans) : loans[i] = loan})

\* total balance of the first n loans that exceed the risk-adjusted return
RECURSIVE HighBalance(_, _)
HighBalance(loans, n) ==
    IF n = 0 THEN 0
    ELSE HighBalance(loans, n - 1)
            + (IF ExceedsRiskAdjusted(loans[n]) THEN loans[n].balance ELSE 0)

C12_Classified ==
    (sim # None /\ sim.call.key = "balanced") =>
        /\ \A i \in 1..Len(sim.call.input) :
              LET loan == sim.call.input[i]
              IN  IF ExceedsRiskAdjusted(loan)
                  THEN /\ Occurrences(sim.call.high_interest_loans, loan)
                             = Occurrences(sim.call.input, loan)
                       /\ Occurrences(sim.call.low_interest_loans, loan) = 0
                  ELSE /\ Occurrences(sim.call.low_interest_loans, loan)
                             = Occurrences(sim.call.input, loan)
                       /\ Occurrences(sim.call.high_interest_loans, loan) = 0
        /\ Len(sim.call.high_interest_loans) + Len(sim.call.low_interest_loans)
              = Len(sim.call.input)

C12_Month ==
    (SimDebtMonth /\ sim.call.key = "balanced") =>
        /\ \A i \in 1..Len(AfterMinimum) :
              LET before == HighBalance(AfterMinimum, i - 1)
                  extra == Min(Max(0, sim.call.monthly_surplus - before),
                               AfterMinimum[i].balance)
                  left == AfterMinimum[i].balance - extra
              IN  IF ExceedsRiskAdjusted(AfterMinimum[i])
                  THEN /\ sim'.s.loans[i].balance = (IF left < Threshold THEN 0 ELSE left)
                       /\ \A j \in 1..(i - 1) :
                             ExceedsRiskAdjusted(AfterMinimum[j]) =>
                                 AfterMinimum[j].interest_rate >= AfterMinimum[i].interest_rate
                  ELSE sim'.s.loans[i].balance = AfterMinimum[i].balance
        /\ sim'.s.investment_balance =
              Grow(sim.s.investment_balance
                      + Max(0, sim.call.monthly_surplus
                                  - HighBalance(AfterMinimum, Len(AfterMinimum))),
                   sim.call.annual_investment_return)

\* C12: for the balanced strategy every input loan is in exactly one of the
\* two lists, high interest iff its rate exceeds annual_investment_return *
\* (1 - risk_factor); and in every month while debt remains a low-interest
\* loan ends with the balance its minimum payment left, the high-interest
\* loans take the surplus one after the other in descending rate order, each
\* up to its balance, and only what the surplus exceeds their total balance
\* by is added to the investment.
C12_Balanced == []C12_Classified /\ [][C12_Month]_vars

\* a balanced simulation with both classes, some months in: a high-interest
\* loan is paid off, a low-interest loan is not, and surplus has been invested
C12_Witness ==
    /\ sim # None /\ sim.pc = "loop" /\ sim.call.key = "balanced"
    /\ \E i, j \in 1..Len(sim.s.loans) :
          /\ ExceedsRiskAdjusted(sim.s.loans[i]) /\ sim.s.loans[i].balance = 0
          /\ ~ExceedsRiskAdjusted(sim.s.loans[j]) /\ sim.s.loans[j].balance > 0
    /\ sim.s.investment_balance > 0

\* C13: under highest_interest_only, in every month while debt remains, only
\* the first loan of the passed list is paid extra, min(surplus, its balance);
\* every other loan ends the month with the balance its minimum payment left;
\* and the rest of the surplus, all of it once the first loan is at zero, is
\* added to the investment.
C13_OnlyDesignatedLoan ==
    [][(SimDebtMonth /\ sim.call.strategy = "highest_interest_only") =>
        LET extra == Min(sim.call.monthly_surplus, Max(0, AfterMinimum[1].balance))
            left == AfterMinimum[1].balance - extra
        IN  /\ sim'.s.loans[1].balance = (IF left < Threshold THEN 0 ELSE left)
            /\ \A i \in 2..Len(AfterMinimum) :
                  sim'.s.loans[i].balance = AfterMinimum[i].balance
            /\ sim'.s.investment_balance =
                  Grow(sim.s.investment_balance + sim.call.monthly_surplus - extra,
                       sim.call.annual_investment_return)]_vars

\* highest_interest_only some months in: the designated loan is paid off,
\* another loan still has a balance and surplus has been invested
C13_Witness ==
    /\ sim # None /\ sim.pc = "loop" /\ sim.call.strategy = "highest_interest_only"
    /\ Len(sim.s.loans) >= 2
    /\ sim.s.month > 0
    /\ sim.s.loans[1].balance = 0
    /\ sim.s.loans[2].balance > 0
    /\ sim.s.investment_balance > 0

\* the call of the simulation with another monthly surplus
WithSurplus(m) ==
    [sim.call EXCEPT !.monthly_surplus = m,
                     !.total_monthly_payment = SumMinimumPayment(sim.call.loans, 1) + m]

\* C14: under invest_first, in every month, every loan ends with the balance
\* its minimum payment left, which is the balance it would have with any other
\* surplus; and the investment grows from its balance plus the whole monthly
\* surplus (plus the loans' minimum payments once no debt is left).
C14_InvestFirst ==
    [][((SimDebtMonth \/ SimInvestMonth) /\ sim.call.strategy = "invest_first") =>
        /\ \A i \in 1..Len(AfterMinimum) :
              sim'.s.loans[i].balance = AfterMinimum[i].balance
        /\ \A m \in SimSurpluses :
              SimMonth(WithSurplus(m), sim.s).loans = sim'.s.loans
        /\ sim'.s.investment_balance =
              Grow(sim.s.investment_balance + sim.call.monthly_surplus
                      + (IF AnyBalance(sim.s.loans) THEN 0
                         ELSE SumMinimumPayment(sim.call.loans, 1)),
                   sim.call.annual_investment_return)]_vars

\* invest_first after month 1: debt remains and the investment holds the
\* surplus and its first month's return
C14_Witness ==
    /\ sim # None /\ sim.pc = "loop" /\ sim.call.strategy = "invest_first"
    /\ sim.s.month = 1
    /\ AnyBalance(sim.s.loans)
    /\ sim.s.investment_balance >= sim.call.monthly_surplus
    /\ sim.call.monthly_surplus > 0

\* a month with total debt zero has been recorded
DebtFreeRecorded ==
    \E k \in 1..Len(sim.monthly_data) : sim.monthly_data[k].total_debt = 0

\* C15: in every month simulated after a month recorded with total debt zero,
\* the investment grows from its balance plus all loans' minimum payments plus
\* the monthly surplus, the month is recorded with total debt zero and the
\* cumulative interest paid is the one of the month before.
C15_AfterDebtFree ==
    [][((SimDebtMonth \/ SimInvestMonth) /\ DebtFreeRecorded) =>
        /\ sim'.s.investment_balance =
              Grow(sim.s.investment_balance
                      + SumMinimumPayment(sim.call.loans, 1) + sim.call.monthly_surplus,
                   sim.call.annual_investment_return)
        /\ sim'.s.last.total_debt = 0
        /\ sim'.s.total_interest_paid = sim.s.total_interest_paid]_vars

\* positions of monthly_data recorded with total debt zero
ZeroDebtEntries == {k \in 1..Len(sim.monthly_data) : sim.monthly_data[k].total_debt = 0}

\* C16: the months_to_debt_free a simulation returns is the month of the
\* first entry of monthly_data whose total_debt is 0, and max_months when
\* monthly_data has no such entry.
C16_MonthsToDebtFree ==
    (sim # None /\ sim.pc = "done") =>
        IF ZeroDebtEntries = {}
        THEN sim.result.months_to_debt_free = max_months
        ELSE \E k \in ZeroDebtEntries :
                /\ \A j \in ZeroDebtEntries : k <= j
                /\ sim.result.months_to_debt_free = sim.monthly_data[k].month

\* a returned simulation whose debt reached zero after the first month and
\* before the last
C16_Witness ==
    /\ sim # None /\ sim.pc = "done"
    /\ sim.result.months_to_debt_free > 1
    /\ sim.result.months_to_debt_free < max_months
    /\ sim.monthly_data[sim.result.months_to_debt_free].total_debt = 0
    /\ sim.monthly_data[sim.result.months_to_debt_free - 1].total_debt > 0

----------------------------------------------------------------------------
(* The loops of the amortization schedule and of the simulations together *)

InitBounded == Init \/ InitSim

NextBounded == Next \/ NextSim

SpecBounded == InitBounded /\ [][NextBounded]_vars

\* the schedule and the iteration count stay within max_years * 12; a
\* simulation records at most max_months months and has recorded exactly
\* max_months when it returns
WithinCeiling ==
    /\ pc \in {"loop", "done"} =>
          /\ Len(schedule) <= args.max_years * MonthsPerYear
          /\ month <= args.max_years * MonthsPerYear
    /\ sim # None =>
          /\ Len(sim.monthly_data) = sim.s.month
          /\ sim.s.month <= max_months
          /\ sim.pc = "done" => sim.s.month = max_months

\* every iteration of a loop counts one month and records one entry, and at
\* the ceiling the only step left is the return
Counted ==
    /\ ScheduleIterate => (month' = month + 1 /\ Len(schedule') = Len(schedule) + 1)
    /\ (SimDebtMonth \/ SimInvestMonth) =>
          (sim'.s.month = sim.s.month + 1
              /\ Len(sim'.monthly_data) = Len(sim.monthly_data) + 1)
    /\ (pc = "loop" /\ month = args.max_years * MonthsPerYear) => pc' = "done"
    /\ (sim # None /\ sim.pc = "loop" /\ sim.s.month = max_months) => sim'.pc = "done"

\* C17: for every input, a payment at or below the interest included, each
\* iteration of generate_amortization_schedule adds one entry and counts one
\* month, the count never exceeds max_years * 12 (so the schedule never has
\* more than max_years * 12 entries and the loop ends within that many
\* iterations); every strategy simulation counts one month per iteration and
\* returns only when it has recorded exactly 360 months.
C17_Terminates == []WithinCeiling /\ [][Counted]_vars

\* a schedule returned at the ceiling for a payment below the interest: the
\* balance has not gone down
C17_Witness ==
    /\ pc = "done"
    /\ args.principal > 0
    /\ balance >= args.principal
    /\ Len(schedule) = args.max_years * MonthsPerYear

----------------------------------------------------------------------------
(* The functions of calculations.py called on their own: one call each, of *)
(* calculate_extra_payment_impact, of calculate_monthly_payment followed by *)
(* the schedule for the payment it returns, and of                         *)
(* calculate_investment_projection month by month.                         *)

ImpactArgs ==
    [principal : {-10005, 0, 10005, 20000}, annual_rate : AnnualRates,
     monthly_payment : {-100, 0, 100, 400, 6000}, extra_payment : {-500, 0, 500}]

ImpactCalls ==
    {[op |-> "calculate_extra_payment_impact", args |-> a, pc |-> "call", result |-> None] :
        a \in ImpactArgs}

CallExtraPaymentImpact ==
    /\ fn # None /\ fn.op = "calculate_extra_payment_impact" /\ fn.pc = "call"
    /\ fn' = [fn EXCEPT !.pc = "done",
                        !.result = calculate_extra_payment_impact(
                                       fn.args.principal, fn.args.annual_rate,
                                       fn.args.monthly_payment, fn.args.extra_payment)]
    /\ UNCHANGED <<amort_vars, strategy_vars, sim, limiter>>

----------------------------------------------------------------------------
(* calculate_monthly_payment, as calculate_loan_details calls it for a loan *)
(* without a minimum payment, followed by the calls made with its result   *)

PaymentArgs ==
    [principal : {0, 1200, 12000, 24000}, annual_rate : AnnualRates, years : {0, 1, 2}]

PaymentCalls ==
    {[op |-> "calculate_monthly_payment", args |-> a, pc |-> "call", result |-> None] :
        a \in PaymentArgs}

CallMonthlyPayment ==
    /\ fn # None /\ fn.op = "calculate_monthly_payment" /\ fn.pc = "call"
    /\ \E calculated_monthly_payment \in
            {calculate_monthly_payment(fn.args.principal, fn.args.annual_rate, fn.args.years)} :
          /\ fn' = [fn EXCEPT !.pc = "done", !.result = calculated_monthly_payment]
          /\ args' = [principal |-> fn.args.principal, annual_rate |-> fn.args.annual_rate,
                      monthly_payment |-> calculated_monthly_payment,
                      extra_payment |-> 0, max_years |-> DefaultMaxYears]
    /\ pc' = "term"
    /\ UNCHANGED <<loan_term, interest_paid, balance, month, total_interest, schedule>>
    /\ UNCHANGED <<strategy_vars, sim, limiter>>

----------------------------------------------------------------------------
(* calculate_investment_projection month by month *)

ProjectionArgs ==
    [monthly_amount : {0, 1000, 50000}, annual_return : {0, 7},
     months : {0, 3, 12}, risk_factor : {0, 20, 50}]

ProjectionCalls ==
    {[op |-> "calculate_investment_projection", args |-> a, pc |-> "call",
      balance |-> 0, month |-> 0, projection |-> <<>>, result |-> None] :
        a \in ProjectionArgs}

\* the early return, or the start of the loop
ProjectionEnter ==
    /\ fn # None /\ fn.op = "calculate_investment_projection" /\ fn.pc = "call"
    /\ IF fn.args.monthly_amount <= 0 \/ fn.args.months <= 0
       THEN fn' = [fn EXCEPT !.pc = "done",
                             !.result = [projection |-> <<>>, final_balance |-> 0,
                                         risk_adjusted_balance |-> 0]]
       ELSE fn' = [fn EXCEPT !.pc = "loop"]
    /\ UNCHANGED <<amort_vars, strategy_vars, sim, limiter>>

\* one iteration of `for month in range(1, months + 1)`
ProjectionMonth ==
    /\ fn # None /\ fn.op = "calculate_investment_projection" /\ fn.pc = "loop"
    /\ fn.month < fn.args.months
    /\ \E b \in {fn.balance + TimesMonthlyReturn(fn.balance, fn.args.annual_return)
                    + fn.args.monthly_amount} :
          fn' = [fn EXCEPT !.month = @ + 1, !.balance = b,
                           !.projection = Append(@, ProjectionEntry(b, fn.month + 1,
                                                     fn.args.months, fn.args.risk_factor))]
    /\ UNCHANGED <<amort_vars, strategy_vars, sim, limiter>>

\* the final values and the return
ProjectionReturn ==
    /\ fn # None /\ fn.op = "calculate_investment_projection" /\ fn.pc = "loop"
    /\ fn.month >= fn.args.months
    /\ fn' = [fn EXCEPT !.pc = "done",
                        !.result = [projection |-> fn.projection,
                                    final_balance |-> fn.balance,
                                    risk_adjusted_balance |->
                                        fn.balance - (fn.balance * fn.args.risk_factor) \div 100]]
    /\ UNCHANGED <<amort_vars, strategy_vars, sim, limiter>>

----------------------------------------------------------------------------
(* The per-loan loop of calculate_financial_strategy_comparison, which      *)
(* fills loan_comparisons                                                   *)

\* a loan large enough for a hundredth of its rate to yield interest
LoanP == [id |-> 7, balance |-> 500000, interest_rate |-> 2400, minimum_payment |-> 20000]

CompareArgs ==
    [loans : {<<LoanP>>, <<LoanA, LoanP>>, <<LoanC>>},
     monthly_surplus : {200, 20000},
     annual_investment_return : InvestmentReturns,
     risk_factor : {20, 100}]

CompareCalls ==
    {[op |-> "loan_comparisons", args |-> a, pc |-> "call", result |-> None] :
        a \in CompareArgs}

CompareLoans ==
    /\ fn # None /\ fn.op = "loan_comparisons" /\ fn.pc = "call"
    /\ fn' = [fn EXCEPT !.pc = "done",
                        !.result = LoanComparisons(fn.args.loans, fn.args.monthly_surplus,
                                       fn.args.annual_investment_return,
                                       fn.args.risk_factor, 1)]
    /\ UNCHANGED <<amort_vars, strategy_vars, sim, limiter>>

----------------------------------------------------------------------------
(* The three simulators called directly, degenerate arguments included *)

Simulators ==
    {"simulate_debt_payoff_strategy", "simulate_balanced_strategy",
     "simulate_invest_first_strategy"}

SimulatorArgs ==
    [simulator : Simulators, loans : {<<>>, <<LoanC>>}, monthly_surplus : {-50, 0, 200},
     annual_investment_return : InvestmentReturns]

SimulatorCalls ==
    {[op |-> "simulate", args |-> a, pc |-> "call", result |-> None] : a \in SimulatorArgs}

\* one call: the debt payoff simulator as avalanche, the balanced one with
\* the loans as its high-interest loans
CallSimulator ==
    /\ fn # None /\ fn.op = "simulate" /\ fn.pc = "call"
    /\ \E r \in {IF fn.args.simulator = "simulate_debt_payoff_strategy"
                 THEN simulate_debt_payoff_strategy(fn.args.loans, fn.args.monthly_surplus,
                          fn.args.annual_investment_return, "avalanche")
                 ELSE IF fn.args.simulator = "simulate_balanced_strategy"
                 THEN simulate_balanced_strategy(fn.args.loans, <<>>, fn.args.monthly_surplus,
                          fn.args.annual_investment_return)
                 ELSE simulate_invest_first_strategy(fn.args.loans, fn.args.monthly_surplus,
                          fn.args.annual_investment_return)} :
          fn' = [fn EXCEPT !.pc = "done", !.result = r]
    /\ UNCHANGED <<amort_vars, strategy_vars, sim, limiter>>

----------------------------------------------------------------------------

InitFunctions ==
    /\ args = None
    /\ pc = "idle"
    /\ loan_term = None
    /\ interest_paid = None
    /\ balance = 0
    /\ month = 0
    /\ total_interest = 0
    /\ schedule = <<>>
    /\ strategy_cache = <<>>
    /\ heap = <<>>
    /\ calls = <<>>
    /\ requests = 0
    /\ limiter = None
    /\ sim = None
    /\ fn \in ImpactCalls \cup PaymentCalls \cup ProjectionCalls \cup CompareCalls
             \cup SimulatorCalls

NextFunctions ==
    \/ CallExtraPaymentImpact
    \/ CallMonthlyPayment
    \/ Next
    \/ ProjectionEnter
    \/ ProjectionMonth
    \/ ProjectionReturn
    \/ CompareLoans
    \/ CallSimulator

SpecFunctions == InitFunctions /\ [][NextFunctions]_vars

\* the stepwise projection returns what calculate_investment_projection does
ProjectionAgrees ==
    (fn # None /\ fn.op = "calculate_investment_projection" /\ fn.pc = "done") =>
        /\ fn.result.final_balance =
              calculate_investment_projection(fn.args.monthly_amount, fn.args.annual_return,
                  fn.args.months, fn.args.risk_factor).final_balance
        /\ fn.result.risk_adjusted_balance =
              calculate_investment_projection(fn.args.monthly_amount, fn.args.annual_return,
                  fn.args.months, fn.args.risk_factor).risk_adjusted_balance

\* C18: calculate_extra_payment_impact called with a principal, a
\* monthly_payment or an extra_payment that is zero or negative (an
\* extra_payment of 0 in particular) returns the all-zero dictionary:
\* months_saved 0, interest_saved 0 and both terms 0 months, 0 years.
C18_ZeroImpact ==
    (/\ fn # None /\ fn.op = "calculate_extra_payment_impact" /\ fn.pc = "done"
     /\ (fn.args.principal <= 0 \/ fn.args.monthly_payment <= 0
            \/ fn.args.extra_payment <= 0)) =>
        /\ fn.result.months_saved = 0
        /\ fn.result.interest_saved = 0
        /\ fn.result.original_term = [months |-> 0, years |-> 0]
        /\ fn.result.new_term = [months |-> 0, years |-> 0]

\* the call returned for a loan that has a term and extra_payment = 0
C18_Witness ==
    /\ fn # None /\ fn.op = "calculate_extra_payment_impact" /\ fn.pc = "done"
    /\ fn.args.principal > 0 /\ fn.args.monthly_payment > 0
    /\ fn.args.extra_payment = 0
    /\ fn.result.months_saved = 0 /\ fn.result.interest_saved = 0

\* C19: for principal > 0, years > 0 and annual_rate 0 the payment returned by
\* calculate_monthly_payment times years * 12 is the principal, and every
\* entry of the schedule generated with that payment has interest_payment 0.
C19_ZeroRate ==
    (/\ fn # None /\ fn.op = "calculate_monthly_payment" /\ fn.pc = "done"
     /\ fn.args.principal > 0 /\ fn.args.years > 0 /\ fn.args.annual_rate = 0) =>
        /\ fn.result * (fn.args.years * MonthsPerYear) = fn.args.principal
        /\ args.monthly_payment = fn.result
        /\ \A i \in 1..Len(schedule) : schedule[i].interest_payment = 0

\* the schedule of a zero-rate loan is complete: years * 12 entries, the last
\* one at balance zero
C19_Witness ==
    /\ fn # None /\ fn.op = "calculate_monthly_payment" /\ fn.pc = "done"
    /\ fn.args.principal > 0 /\ fn.args.years > 0 /\ fn.args.annual_rate = 0
    /\ pc = "done"
    /\ Len(schedule) = fn.args.years * MonthsPerYear
    /\ schedule[Len(schedule)].remaining_balance = 0

\* x is y / d cut to a whole number of 1/1000
IsQuotient(x, y, d) == x * d <= y /\ y < (x + 1) * d

\* C20: the entry of month k has risk_adjusted_balance = balance minus
\* balance * (k / months) * (risk_factor / 10); the value returned at the end
\* is final_balance minus final_balance * risk_factor; with risk_factor 0 both
\* are the raw balance.
C20_RiskAdjusted ==
    (fn # None /\ fn.op = "calculate_investment_projection") =>
        /\ \A k \in 1..Len(fn.projection) :
              LET e == fn.projection[k]
              IN  /\ e.month = k
                  /\ IsQuotient(e.balance - e.risk_adjusted_balance,
                                e.balance * k * fn.args.risk_factor,
                                fn.args.months * 10 * 100)
                  /\ fn.args.risk_factor = 0 => e.risk_adjusted_balance = e.balance
        /\ (fn.pc = "done" /\ fn.args.monthly_amount > 0 /\ fn.args.months > 0) =>
              /\ fn.result.final_balance = fn.projection[fn.args.months].balance
              /\ IsQuotient(fn.result.final_balance - fn.result.risk_adjusted_balance,
                            fn.result.final_balance * fn.args.risk_factor, 100)
              /\ fn.args.risk_factor = 0 =>
                    fn.result.risk_adjusted_balance = fn.result.final_balance

\* a returned projection whose last entry is discounted by a tenth of what the
\* final value is discounted by
C20_Witness ==
    /\ fn # None /\ fn.op = "calculate_investment_projection" /\ fn.pc = "done"
    /\ fn.args.risk_factor > 0 /\ fn.args.months > 1
    /\ Len(fn.projection) = fn.args.months
    /\ fn.result.risk_adjusted_balance
          < fn.projection[fn.args.months].risk_adjusted_balance
    /\ fn.projection[1].risk_adjusted_balance < fn.projection[1].balance

\* C21: while and after a simulator runs for the comparison, the caller's list
\* holds the same dictionaries in the same order, and each of them has the id,
\* balance, interest rate and minimum payment it was passed with.
C21_InputUnchanged ==
    sim # None =>
        /\ sim.caller = [i \in 1..Len(sim.call.input) |-> i]
        /\ \A i \in 1..Len(sim.call.input) :
              LET loan == sim.objects[sim.caller[i]]
              IN  /\ loan.id = sim.call.input[i].id
                  /\ loan.balance = sim.call.input[i].balance
                  /\ loan.interest_rate = sim.call.input[i].interest_rate
                  /\ loan.minimum_payment = sim.call.input[i].minimum_payment

\* a simulation has returned whose copy of the caller's first loan is paid
\* off while the caller's dictionary still has its balance
C21_Witness ==
    /\ sim # None /\ sim.pc = "done"
    /\ \E i \in 1..Len(sim.working) :
          /\ sim.objects[sim.working[i]].balance = 0
          /\ sim.objects[sim.working[i]].id = sim.call.input[1].id
    /\ sim.objects[sim.caller[1]].balance > 0

\* the loan of the call that an entry of loan_comparisons belongs to
LoanOf(e) == CHOOSE l \in {fn.args.loans[i] : i \in 1..Len(fn.args.loans)} : l.id = e.loan_id

\* C22: in every entry of loan_comparisons, interest_saved is the baseline's
\* total interest minus the accelerated one, risk_adjusted_investment is the
\* risk-adjusted balance of investing the surplus for the accelerated number
\* of months, paying_down_better is true exactly when interest_saved is
\* strictly greater than it, and advantage_amount is the absolute value of
\* their difference.
C22_PayingDownBetter ==
    (fn # None /\ fn.op = "loan_comparisons" /\ fn.pc = "done") =>
        \A k \in 1..Len(fn.result) :
            LET e == fn.result[k]
                saved == e.baseline.total_interest - e.accelerated.total_interest
                invested == calculate_investment_projection(
                                fn.args.monthly_surplus, fn.args.annual_investment_return,
                                e.accelerated.months_to_payoff,
                                fn.args.risk_factor).risk_adjusted_balance
            IN  /\ e.interest_saved = saved
                /\ e.risk_adjusted_investment = invested
                /\ e.paying_down_better = (saved > invested)
                /\ e.advantage_amount = (IF saved > invested THEN saved - invested
                                         ELSE invested - saved)

\* an entry for which investing is better, by a positive amount
C22_Witness ==
    /\ fn # None /\ fn.op = "loan_comparisons" /\ fn.pc = "done"
    /\ \E k \in 1..Len(fn.result) :
          /\ ~fn.result[k].paying_down_better
          /\ fn.result[k].interest_saved > 0
          /\ fn.result[k].advantage_amount > 0

\* C23: for every loan with positive balance, rate and minimum payment, the
\* entry's baseline months and total interest are those of
\* generate_amortization_schedule for the loan's balance, its stored
\* percentage rate and its minimum payment without extra payment, and the
\* accelerated ones those of the same schedule with the monthly surplus as
\* extra payment.
C23_SameAsSchedule ==
    (fn # None /\ fn.op = "loan_comparisons" /\ fn.pc = "done") =>
        \A k \in 1..Len(fn.result) :
            LET e == fn.result[k]
                loan == LoanOf(e)
                a == [principal |-> loan.balance, annual_rate |-> loan.interest_rate,
                      monthly_payment |-> loan.minimum_payment, extra_payment |-> 0,
                      max_years |-> DefaultMaxYears]
                baseline == generate_amortization_schedule(a)
                accelerated ==
                    generate_amortization_schedule(
                        [a EXCEPT !.extra_payment = fn.args.monthly_surplus])
            IN  /\ e.baseline.months_to_payoff = baseline.months_to_payoff
                /\ e.baseline.total_interest = baseline.total_interest_paid
                /\ e.accelerated.months_to_payoff = accelerated.months_to_payoff
                /\ e.accelerated.total_interest = accelerated.total_interest_paid

\* C24: for principal > 0 and monthly_payment > 0 with a finite term, at any
\* rate including 0, the months calculate_loan_term returns times the payment
\* is at least the principal (a partial last payment counts as a month), and
\* at rate 0 one month less would not be enough.
C24_MonthsRoundedUp ==
    (/\ pc \in {"interest", "schedule", "loop", "done"}
     /\ args.principal > 0 /\ args.monthly_payment > 0
     /\ ~loan_term.months.inf) =>
        /\ loan_term.months.val * args.monthly_payment >= args.principal
        /\ args.annual_rate = 0 =>
              (loan_term.months.val - 1) * args.monthly_payment < args.principal

\* C25: in every schedule entry that leaves a balance (so neither the
\* principal part nor the extra payment was capped by the balance),
\* principal_payment + interest_payment + extra_payment equals payment, for
\* any extra_payment >= 0.
C25_PartsSumToPayment ==
    \A i \in 1..Len(schedule) :
        schedule[i].remaining_balance > 0 =>
            schedule[i].principal_payment + schedule[i].interest_payment
                + schedule[i].extra_payment = schedule[i].payment

\* C26: each of the three simulators, called with an empty loan list or with a
\* monthly surplus <= 0, returns final net worth 0, total interest 0, months
\* to debt free 0 and investment value 0.
C26_ZeroedResult ==
    (/\ fn # None /\ fn.op = "simulate" /\ fn.pc = "done"
     /\ (fn.args.loans = <<>> \/ fn.args.monthly_surplus <= 0)) =>
        /\ fn.result.final_net_worth = 0
        /\ fn.result.total_interest_paid = 0
        /\ fn.result.months_to_debt_free = 0
        /\ fn.result.investment_value = 0

\* the schedule of the single loan of the call at its minimum payment
SingleLoanSchedule ==
    generate_amortization_schedule(
        [principal |-> sim.call.input[1].balance,
         annual_rate |-> sim.call.input[1].interest_rate,
         monthly_payment |-> sim.call.input[1].minimum_payment,
         extra_payment |-> 0, max_years |-> DefaultMaxYears])

SingleLoanInvestFirst ==
    /\ sim # None /\ sim.pc = "done"
    /\ sim.call.key = "invest_first" /\ Len(sim.call.input) = 1

C28_SmallestBalanceFirst ==
    [][(SimDebtMonth /\ sim.call.strategy = "snowball") =>
        \A i \in 1..Len(AfterMinimum) :
            sim'.s.loans[i].balance # AfterMinimum[i].balance =>
                \A j \in 1..Len(AfterMinimum) :
                    AfterMinimum[j].balance > 0 =>
                        AfterMinimum[i].balance <= AfterMinimum[j].balance]_vars

\* what the month's extra payments took off the balances the minimum payments
\* left, over the first n loans
RECURSIVE ExtraPaid(_, _, _)
ExtraPaid(before, after, n) ==
    IF n = 0 THEN 0
    ELSE ExtraPaid(before, after, n - 1) + (before[n].balance - after[n].balance)

\* the monthly surplus is split into extra payments and an investment: some
\* amount invested, from 0 to the surplus, gives the new investment balance,
\* and the balances went down by the rest of the surplus (by up to 0.01 more
\* for each loan, a balance below 0.01 being written off)
SurplusAccounted ==
    (SimDebtMonth /\ sim.call.monthly_surplus > 0) =>
        \E invested \in 0..sim.call.monthly_surplus :
            /\ sim'.s.investment_balance =
                  Grow(sim.s.investment_balance + invested, sim.call.annual_investment_return)
            /\ LET paid == ExtraPaid(AfterMinimum, sim'.s.loans, Len(AfterMinimum))
                   extra == sim.call.monthly_surplus - invested
               IN  extra <= paid /\ paid < extra + Threshold * Len(AfterMinimum)

NoNegativeBalance ==
    sim # None => \A i \in 1..Len(sim.s.loans) : sim.s.loans[i].balance >= 0

\* C29: in every simulated month while debt remains, under every policy, the
\* extra payments applied to the loans plus the amount added to the
\* investment balance before compounding are the monthly surplus, and no loan
\* balance is ever negative.
C29_SurplusAccounted == []NoNegativeBalance /\ [][SurplusAccounted]_vars

(***************************************************************************)
(* RateLimitingMiddleware (middleware/rate_limiting.py).  self.requests    *)
(* maps a client address to (count, timestamp); the clock is time.time()   *)
(* in whole seconds.  The statements of dispatch before                    *)
(* `await call_next(request)` run without suspension, so one dispatch     *)
(* is one step.  limiter.log lists the requests in arrival order with the  *)
(* response status the middleware gave each.                               *)
(***************************************************************************)
max_requests == 2

time_window == 3

MaxTime == 6

MaxLog == 5

Clients == {"10.0.0.1", "10.0.0.2"}

InitMiddleware ==
    /\ args = None
    /\ pc = "idle"
    /\ loan_term = None
    /\ interest_paid = None
    /\ balance = 0
    /\ month = 0
    /\ total_interest = 0
    /\ schedule = <<>>
    /\ strategy_cache = <<>>
    /\ heap = <<>>
    /\ calls = <<>>
    /\ requests = 0
    /\ sim = None
    /\ fn = None
    /\ limiter = [requests |-> [ip \in Clients |-> None], current_time |-> 0, log |-> <<>>]

\* the entries of self.requests that the clean-up of dispatch keeps
Cleaned(table, current_time) ==
    [ip \in Clients |->
        IF table[ip] # None /\ current_time - table[ip].timestamp < time_window
        THEN table[ip] ELSE None]

\* self.requests.get(client_ip, (0, current_time))
Lookup(table, client_ip, current_time) ==
    IF table[client_ip] = None THEN [count |-> 0, timestamp |-> current_time]
    ELSE table[client_ip]

\* the status dispatch answers with: 429 from the middleware, 200 from the application
Status(entry) == IF entry.count >= max_requests THEN 429 ELSE 200

\* dispatch(request) for a request of client_ip
Dispatch(client_ip) ==
    /\ limiter # None
    /\ Len(limiter.log) < MaxLog
    /\ \E kept \in {Cleaned(limiter.requests, limiter.current_time)} :
       \E entry \in {Lookup(kept, client_ip, limiter.current_time)} :
          limiter' = [limiter EXCEPT
              !.requests = IF Status(entry) = 429 THEN kept
                           ELSE [kept EXCEPT ![client_ip] =
                                    [count |-> entry.count + 1,
                                     timestamp |-> limiter.current_time]],
              !.log = Append(@, [ip |-> client_ip, time |-> limiter.current_time,
                                 status |-> Status(entry)])]
    /\ UNCHANGED <<amort_vars, strategy_vars, sim, fn>>

\* a second passes on the clock read by time.time()
Tick ==
    /\ limiter # None
    /\ limiter.current_time < MaxTime
    /\ limiter' = [limiter EXCEPT !.current_time = @ + 1]
    /\ UNCHANGED <<amort_vars, strategy_vars, sim, fn>>

NextMiddleware ==
    \/ \E client_ip \in Clients : Dispatch(client_ip)
    \/ Tick

SpecMiddleware == InitMiddleware /\ [][NextMiddleware]_vars

\* the requests of ip among the first n of the log that arrived at most
\* time_window seconds before time t
InWindow(ip, n, t) ==
    {j \in 1..n : /\ limiter.log[j].ip = ip
                  /\ t - limiter.log[j].time <= time_window}

Accepted(js) == {j \in js : limiter.log[j].status = 200}

\* C30: a request is answered 429 only if max_requests or more requests of the
\* same address were accepted within the time_window seconds before it, so that
\* an address with at most max_requests requests in every window is never
\* rejected.
C30_RejectedOnlyOverLimit ==
    limiter # None =>
        \A i \in 1..Len(limiter.log) :
            limiter.log[i].status = 429 =>
                /\ Cardinality(Accepted(InWindow(limiter.log[i].ip, i - 1,
                                                 limiter.log[i].time))) >= max_requests
                /\ Cardinality(InWindow(limiter.log[i].ip, i,
                                        limiter.log[i].time)) > max_requests

====
